---- MODULE Spec2Model ----
(***************************************************************************)
(* JsonBuilderNode (src/nodes/JsonBuilderNode.py): build_json and the      *)
(* helpers it calls -- parse_value, safe_json_parse, merge_json_objects -- *)
(* together with the parts of Python's str, int, float, dict and json that *)
(* they rely on.                                                           *)
(*                                                                         *)
(* A Python str is a sequence of one-character strings.  A Python value is *)
(* a record of fixed shape [t, n, e, s, m]: t is the type tag, n and e the *)
(* numeric payload, s the text payload, m the entries of a dict or list.   *)
(* Dicts are heap objects: the variable heap maps an address to the        *)
(* ordered entries of the dict living there, and a value of tag "ref"      *)
(* names such an address, so that aliasing and in-place update are         *)
(* visible.                                                                *)
(***************************************************************************)
EXTENDS Integers, Sequences, FiniteSets, TLC

(***************************************************************************)
(* Python str                                                              *)
(***************************************************************************)

\* str.strip() removes these (the ASCII part of Python's whitespace that the
\* alphabet of the model holds).
PyWhitespace == {" ", "\t", "\n", "\r", "\f"}

\* The whitespace of json.decoder.WHITESPACE: no form feed.
JsonWhitespace == {" ", "\t", "\n", "\r"}

DigitChars == <<"0", "1", "2", "3", "4", "5", "6", "7", "8", "9">>

IsDigit(c) == \E i \in 1..10 : DigitChars[i] = c

DigitVal(c) == (CHOOSE i \in 1..10 : DigitChars[i] = c) - 1

UpperChars == <<"A", "B", "C", "D", "E", "F", "G", "H", "I", "J", "K", "L", "M",
                "N", "O", "P", "Q", "R", "S", "T", "U", "V", "W", "X", "Y", "Z">>

LowerChars == <<"a", "b", "c", "d", "e", "f", "g", "h", "i", "j", "k", "l", "m",
                "n", "o", "p", "q", "r", "s", "t", "u", "v", "w", "x", "y", "z">>

LowerChar(c) ==
    IF \E i \in 1..26 : UpperChars[i] = c
    THEN LowerChars[CHOOSE i \in 1..26 : UpperChars[i] = c]
    ELSE c

lower(s) == [i \in 1..Len(s) |-> LowerChar(s[i])]

RECURSIVE lstrip(_)
lstrip(s) ==
    IF s # <<>> /\ Head(s) \in PyWhitespace THEN lstrip(Tail(s)) ELSE s

RECURSIVE rstrip(_)
rstrip(s) ==
    IF s # <<>> /\ s[Len(s)] \in PyWhitespace
    THEN rstrip(SubSeq(s, 1, Len(s) - 1))
    ELSE s

strip(s) == rstrip(lstrip(s))

startswith(s, c) == s # <<>> /\ s[1] = c

endswith(s, c) == s # <<>> /\ s[Len(s)] = c

Contains(s, c) == \E i \in 1..Len(s) : s[i] = c

\* s[1:-1]
SliceInner(s) == SubSeq(s, 2, Len(s) - 1)

\* s[p:p+Len(w)] == w
MatchAt(s, p, w) ==
    /\ p + Len(w) - 1 <= Len(s)
    /\ \A i \in 1..Len(w) : s[p + i - 1] = w[i]

(***************************************************************************)
(* Python values                                                           *)
(***************************************************************************)

Val(t, n, e, s, m) == [t |-> t, n |-> n, e |-> e, s |-> s, m |-> m]

PyStr(s) == Val("str", 0, 0, s, <<>>)

PyInt(n) == Val("int", n, 0, <<>>, <<>>)

\* The float n * 10^e, n not a multiple of 10 unless it is 0 (then e = 0).
PyFloat(n, e) == Val("float", n, e, <<>>, <<>>)

\* nan, inf, -inf, -0.0: s names which.
PyFloatSpecial(s) == Val("float", 0, 0, s, <<>>)

PyBool(b) == Val("bool", IF b THEN 1 ELSE 0, 0, <<>>, <<>>)

PyNone == Val("None", 0, 0, <<>>, <<>>)

\* A dict held by value: m is its entries [k, v] in insertion order.
PyDict(m) == Val("dict", 0, 0, <<>>, m)

\* A list: m is its items [k, v], k unused.
PyList(m) == Val("list", 0, 0, <<>>, m)

\* A reference to the dict at address a of the heap.
Ref(a) == Val("ref", a, 0, <<>>, <<>>)

Entry(k, v) == [k |-> k, v |-> v]

Item(v) == [k |-> <<>>, v |-> v]

IsStr(v) == v.t = "str"

\* isinstance(v, dict)
IsDict(v) == v.t \in {"dict", "ref"}

\* bool(v): the truth value the conditions of the source test.
Truthy(v) ==
    CASE v.t = "str" -> v.s # <<>>
      [] v.t = "int" -> v.n # 0
      [] v.t = "float" -> v.n # 0 \/ v.s \notin {<<>>, <<"-", "0">>}
      [] v.t = "bool" -> v.n = 1
      [] v.t = "None" -> FALSE
      [] v.t \in {"dict", "list"} -> v.m # <<>>
      [] OTHER -> TRUE

(***************************************************************************)
(* dict: ordered entries, one per key                                      *)
(***************************************************************************)

HasKey(m, k) == \E i \in 1..Len(m) : m[i].k = k

KeyIndex(m, k) == CHOOSE i \in 1..Len(m) : m[i].k = k

\* m[k]
DictGet(m, k) == m[KeyIndex(m, k)].v

\* A store that leaves the value of an existing key alone.
DictSetKeepsFirst(m, k, v) ==
    IF HasKey(m, k) THEN m ELSE Append(m, Entry(k, v))

\* A store that moves an existing key to the last position.
DictSetMovesLast(m, k, v) ==
    Append(SelectSeq(m, LAMBDA x : x.k # k), Entry(k, v))

\* m[k] = v: an existing key keeps its position, a new key goes last.
DictSet(m, k, v) ==
    IF HasKey(m, k)
    THEN [m EXCEPT ![KeyIndex(m, k)] = Entry(k, v)]
    ELSE Append(m, Entry(k, v))

RECURSIVE DictUpdate(_, _)

\* An update that adds the entries of other after those of m.
DictUpdateAppends(m, other) == m \o other

\* m.update(other)
DictUpdate(m, other) ==
    IF other = <<>> THEN m
    ELSE DictUpdate(DictSet(m, Head(other).k, Head(other).v), Tail(other))

Keys(m) == {m[i].k : i \in 1..Len(m)}

(***************************************************************************)
(* int(str) and float(str)                                                 *)
(***************************************************************************)

\* The outcome of a conversion: ok with the value v (and, for the JSON scanner,
\* the position p after it), or not ok.  digits > 0 is the ValueError of an
\* integer literal with that many digits, over the limit of int().
NoParse == [ok |-> FALSE, v |-> PyNone, p |-> 0, digits |-> 0]

Parsed(v, p) == [ok |-> TRUE, v |-> v, p |-> p, digits |-> 0]

TooManyDigits(n) == [ok |-> FALSE, v |-> PyNone, p |-> 0, digits |-> n]

\* sys.int_info.default_max_str_digits
MaxStrDigits == 4300

\* Digits, with single underscores allowed between them.
DigitGroupOk(b) ==
    /\ b # <<>>
    /\ IsDigit(b[1])
    /\ IsDigit(b[Len(b)])
    /\ \A i \in 1..Len(b) : IsDigit(b[i]) \/ b[i] = "_"
    /\ \A i \in 1..(Len(b) - 1) : ~(b[i] = "_" /\ b[i + 1] = "_")

RECURSIVE DigitsValue(_, _)
DigitsValue(b, acc) ==
    IF b = <<>> THEN acc
    ELSE IF Head(b) = "_" THEN DigitsValue(Tail(b), acc)
    ELSE DigitsValue(Tail(b), acc * 10 + DigitVal(Head(b)))

CountDigits(b) == Cardinality({i \in 1..Len(b) : b[i] # "_"})

HasSign(s) == s # <<>> /\ s[1] \in {"+", "-"}

Unsigned(s) == IF HasSign(s) THEN Tail(s) ELSE s

SignOf(s) == IF s # <<>> /\ s[1] = "-" THEN -1 ELSE 1

\* int(s) for an s without surrounding whitespace; ok = FALSE is ValueError.
PyIntParse(s) ==
    IF ~DigitGroupOk(Unsigned(s)) THEN NoParse
    ELSE IF CountDigits(Unsigned(s)) > MaxStrDigits THEN TooManyDigits(CountDigits(Unsigned(s)))
    ELSE Parsed(PyInt(SignOf(s) * DigitsValue(Unsigned(s), 0)), 0)

RECURSIVE NormFloat(_, _)
NormFloat(n, e) ==
    IF n = 0 THEN PyFloat(0, 0)
    ELSE IF n % 10 = 0 THEN NormFloat(n \div 10, e + 1)
    ELSE PyFloat(n, e)

\* The first ten digits of the largest double, 1.7976931348623157e308.
MaxDoubleLead == 1797693134

\* The number of decimal digits of n > 0.
RECURSIVE NumDigits(_)
NumDigits(n) == IF n < 10 THEN 1 ELSE 1 + NumDigits(n \div 10)

RECURSIVE Pow10(_)
Pow10(k) == IF k = 0 THEN 1 ELSE 10 * Pow10(k - 1)

\* The double nearest to sg * f, f >= 0 of at most ten digits: inf above the
\* largest double, zero below 1e-324, -0.0 when negative. The rounding of
\* subnormal values in between is left out.
InRange(sg, f) ==
    LET k == NumDigits(f.n)
        dp == k + f.e
    IN  IF f.n = 0 \/ dp < -323
        THEN (IF sg = 1 THEN PyFloat(0, 0) ELSE PyFloatSpecial(<<"-", "0">>))
        ELSE IF dp > 309 \/ (dp = 309 /\ f.n > MaxDoubleLead \div Pow10(10 - k))
        THEN PyFloatSpecial(IF sg = 1 THEN <<"i", "n", "f">> ELSE <<"-", "i", "n", "f">>)
        ELSE PyFloat(sg * f.n, f.e)

FirstIndex(s, cs) == CHOOSE i \in 1..Len(s) : s[i] \in cs /\ \A j \in 1..(i - 1) : s[j] \notin cs

HasAny(s, cs) == \E i \in 1..Len(s) : s[i] \in cs

\* float(s) for an s without surrounding whitespace; ok = FALSE is ValueError.
\* ip, fp: the digits before and after the point; expo: the text after e or E.
FloatParts(sg, ip, fp, hasE, expo) ==
    IF /\ ip # <<>> \/ fp # <<>>
       /\ ip = <<>> \/ DigitGroupOk(ip)
       /\ fp = <<>> \/ DigitGroupOk(fp)
       /\ ~hasE \/ DigitGroupOk(Unsigned(expo))
    THEN Parsed(InRange(sg, NormFloat(DigitsValue(ip \o fp, 0),
                                      (IF hasE THEN SignOf(expo) * DigitsValue(Unsigned(expo), 0)
                                       ELSE 0)
                                      - CountDigits(fp))), 0)
    ELSE NoParse

FloatAtPoint(sg, mant, dPos, hasE, expo) ==
    FloatParts(sg, SubSeq(mant, 1, dPos - 1), SubSeq(mant, dPos + 1, Len(mant)), hasE, expo)

FloatMantissa(sg, mant, hasE, expo) ==
    FloatAtPoint(sg, mant,
                 IF Contains(mant, ".") THEN FirstIndex(mant, {"."}) ELSE Len(mant) + 1,
                 hasE, expo)

FloatAtExp(sg, u, ePos) ==
    FloatMantissa(sg, SubSeq(u, 1, ePos - 1), ePos <= Len(u), SubSeq(u, ePos + 1, Len(u)))

FloatUnsigned(sg, u, lu) ==
    IF lu \in {<<"i", "n", "f">>, <<"i", "n", "f", "i", "n", "i", "t", "y">>}
    THEN Parsed(PyFloatSpecial(IF sg = 1 THEN <<"i", "n", "f">> ELSE <<"-", "i", "n", "f">>), 0)
    ELSE IF lu = <<"n", "a", "n">>
    THEN Parsed(PyFloatSpecial(<<"n", "a", "n">>), 0)
    ELSE FloatAtExp(sg, u, IF HasAny(u, {"e", "E"}) THEN FirstIndex(u, {"e", "E"}) ELSE Len(u) + 1)

PyFloatParse(s) == FloatUnsigned(SignOf(s), Unsigned(s), lower(Unsigned(s)))

(***************************************************************************)
(* json.loads                                                              *)
(***************************************************************************)

RECURSIVE SkipWs(_, _)
SkipWs(s, p) ==
    IF p <= Len(s) /\ s[p] \in JsonWhitespace THEN SkipWs(s, p + 1) ELSE p

\* Where the run of digits that begins at p ends.
DigitRun(s, p) ==
    IF p > Len(s) THEN p
    ELSE CHOOSE q \in p..(Len(s) + 1) :
             /\ q > Len(s) \/ ~IsDigit(s[q])
             /\ \A j \in p..(q - 1) : IsDigit(s[j])

\* The characters a backslash may precede, with what they stand for (the
\* alphabet has no backspace and no \u escape).
EscapeOf(c) ==
    CASE c = "n" -> "\n"
      [] c = "t" -> "\t"
      [] c = "r" -> "\r"
      [] c = "f" -> "\f"
      [] OTHER -> c

\* The pieces f[lo], ..., f[hi] joined.
RECURSIVE Flatten(_, _, _)
Flatten(f, lo, hi) ==
    IF lo > hi THEN <<>>
    ELSE IF lo = hi THEN f[lo]
    ELSE Flatten(f, lo, (lo + hi) \div 2) \o Flatten(f, ((lo + hi) \div 2) + 1, hi)

Max(S) == CHOOSE x \in S : \A y \in S : y <= x

Min(S) == CHOOSE x \in S : \A y \in S : x <= y

\* How many backslashes stand in a row just before s[q], from s[p] on.
BackslashesBefore(s, p, q) ==
    IF q <= p \/ s[q - 1] # "\\" THEN 0
    ELSE q - 1 - Max({p - 1} \cup {j \in p..(q - 1) : s[j] # "\\"})

\* s[q] is the second character of a backslash escape of the string begun at p.
IsEscaped(s, p, q) == BackslashesBefore(s, p, q) % 2 = 1

\* What s[j] contributes to the decoded string: nothing for the backslash
\* that begins an escape, the character meant for the one that ends it.
Piece(s, p, j) ==
    IF IsEscaped(s, p, j) THEN <<EscapeOf(s[j])>>
    ELSE IF s[j] = "\\" THEN <<>>
    ELSE <<s[j]>>

\* Strict mode: no control character, and only the known escapes.
ValidAt(s, p, j) ==
    /\ s[j] \notin {"\n", "\t", "\r", "\f"}
    /\ IsEscaped(s, p, j) => s[j] \in {"\"", "\\", "/", "n", "t", "r", "f"}

\* The string that begins at p and ends before the quote at q.
StringBody(s, p, q) ==
    IF \A j \in p..(q - 1) : ValidAt(s, p, j)
    THEN Parsed(PyStr(Flatten([j \in 1..(q - p) |-> Piece(s, p, p + j - 1)], 1, q - p)), q + 1)
    ELSE NoParse

\* The quotes that can end the string begun at p.
Closers(s, p) == {q \in p..Len(s) : s[q] = "\"" /\ ~IsEscaped(s, p, q)}

\* json.decoder.py_scanstring from the character after the opening quote.
ScanString(s, p) ==
    IF Closers(s, p) = {} THEN NoParse ELSE StringBody(s, p, Min(Closers(s, p)))

\* json.scanner.NUMBER_RE matched at p: (-?(?:0|[1-9]\d*))(\.\d+)?([eE][-+]?\d+)?
\* q0: after the sign; q1: after the integer part; q2: after the fraction;
\* q3: after the exponent.
NumberEnd(s, p, q1, q3) ==
    IF q3 = q1 THEN [PyIntParse(SubSeq(s, p, q1 - 1)) EXCEPT !.p = q1]
    ELSE Parsed(PyFloatParse(SubSeq(s, p, q3 - 1)).v, q3)

NumberExp(s, p, q1, q2, x0) ==
    NumberEnd(s, p, q1,
              IF q2 <= Len(s) /\ s[q2] \in {"e", "E"} /\ DigitRun(s, x0) > x0
              THEN DigitRun(s, x0) ELSE q2)

NumberFrac(s, p, q1, q2) ==
    NumberExp(s, p, q1, q2,
              IF q2 + 1 <= Len(s) /\ s[q2 + 1] \in {"+", "-"} THEN q2 + 2 ELSE q2 + 1)

NumberInt(s, p, q0, q1) ==
    IF q1 = q0 THEN NoParse
    ELSE NumberFrac(s, p, q1,
                    IF q1 <= Len(s) /\ s[q1] = "." /\ DigitRun(s, q1 + 1) > q1 + 1
                    THEN DigitRun(s, q1 + 1) ELSE q1)

NumberSign(s, p, q0) ==
    NumberInt(s, p, q0, IF q0 <= Len(s) /\ s[q0] = "0" THEN q0 + 1 ELSE DigitRun(s, q0))

ScanNumber(s, p) ==
    NumberSign(s, p, IF p <= Len(s) /\ s[p] = "-" THEN p + 1 ELSE p)

L_null == <<"n", "u", "l", "l">>

L_true == <<"t", "r", "u", "e">>

L_false == <<"f", "a", "l", "s", "e">>

L_NaN == <<"N", "a", "N">>

L_Infinity == <<"I", "n", "f", "i", "n", "i", "t", "y">>

L_data == <<"d", "a", "t", "a">>

\* json.scanner.py_make_scanner._scan_once, with json.decoder.JSONObject and
\* JSONArray.  Each stage hands what it read to the next one.
RECURSIVE ScanOnce(_, _)
RECURSIVE ScanObject(_, _, _)
RECURSIVE ObjectKey(_, _, _)
RECURSIVE ObjectColon(_, _, _, _)
RECURSIVE ObjectValue(_, _, _, _)
RECURSIVE ObjectNext(_, _, _)
RECURSIVE ScanArray(_, _, _)
RECURSIVE ArrayItem(_, _, _)
RECURSIVE ArrayNext(_, _, _)

\* What _scan_once tries once the text at p is no string, object, array, null,
\* true or false: num is the match of NUMBER_RE.
ScanLiteral(s, p, num) ==
    IF num.ok \/ num.digits > 0 THEN num
    ELSE IF MatchAt(s, p, L_NaN) THEN Parsed(PyFloatSpecial(<<"n", "a", "n">>), p + 3)
    ELSE IF MatchAt(s, p, L_Infinity) THEN Parsed(PyFloatSpecial(<<"i", "n", "f">>), p + 8)
    ELSE IF MatchAt(s, p, <<"-">> \o L_Infinity)
    THEN Parsed(PyFloatSpecial(<<"-", "i", "n", "f">>), p + 9)
    ELSE NoParse

CharAt(s, p, c) == p <= Len(s) /\ s[p] = c

ScanOnce(s, p) ==
    IF p > Len(s) THEN NoParse
    ELSE IF s[p] = "\"" THEN ScanString(s, p + 1)
    ELSE IF s[p] = "{"
    THEN IF CharAt(s, SkipWs(s, p + 1), "}")
         THEN Parsed(PyDict(<<>>), SkipWs(s, p + 1) + 1)
         ELSE ScanObject(s, SkipWs(s, p + 1), <<>>)
    ELSE IF s[p] = "["
    THEN IF CharAt(s, SkipWs(s, p + 1), "]")
         THEN Parsed(PyList(<<>>), SkipWs(s, p + 1) + 1)
         ELSE ScanArray(s, SkipWs(s, p + 1), <<>>)
    ELSE IF MatchAt(s, p, L_null) THEN Parsed(PyNone, p + 4)
    ELSE IF MatchAt(s, p, L_true) THEN Parsed(PyBool(TRUE), p + 4)
    ELSE IF MatchAt(s, p, L_false) THEN Parsed(PyBool(FALSE), p + 5)
    ELSE ScanLiteral(s, p, ScanNumber(s, p))

\* p is where a property name must start; acc the pairs read so far.
ScanObject(s, p, acc) ==
    IF ~CharAt(s, p, "\"") THEN NoParse
    ELSE ObjectKey(s, acc, ScanString(s, p + 1))

\* k: the property name read.
ObjectKey(s, acc, k) ==
    IF ~k.ok THEN NoParse ELSE ObjectColon(s, acc, k.v.s, SkipWs(s, k.p))

\* c: where the colon must be.
ObjectColon(s, acc, key, c) ==
    IF ~CharAt(s, c, ":") THEN NoParse
    ELSE ObjectValue(s, acc, key, ScanOnce(s, SkipWs(s, c + 1)))

\* v: the value read; a later pair with the same name replaces the value.
ObjectValue(s, acc, key, v) ==
    IF ~v.ok THEN v
    ELSE ObjectNext(s, DictSet(acc, key, v.v), SkipWs(s, v.p))

\* d: where the closing brace or the comma must be.
ObjectNext(s, acc, d) ==
    IF CharAt(s, d, "}") THEN Parsed(PyDict(acc), d + 1)
    ELSE IF CharAt(s, d, ",") THEN ScanObject(s, SkipWs(s, d + 1), acc)
    ELSE NoParse

\* p is where an item must start; acc the items read so far.
ScanArray(s, p, acc) == ArrayItem(s, acc, ScanOnce(s, p))

ArrayItem(s, acc, v) ==
    IF ~v.ok THEN v
    ELSE ArrayNext(s, Append(acc, Item(v.v)), SkipWs(s, v.p))

ArrayNext(s, acc, d) ==
    IF CharAt(s, d, "]") THEN Parsed(PyList(acc), d + 1)
    ELSE IF CharAt(s, d, ",") THEN ScanArray(s, SkipWs(s, d + 1), acc)
    ELSE NoParse

\* JSONDecoder.decode: nothing but whitespace may follow the value r.
DecodeEnd(s, r) ==
    IF ~r.ok THEN r
    ELSE IF SkipWs(s, r.p) = Len(s) + 1 THEN Parsed(r.v, 0)
    ELSE NoParse

\* json.loads(s); ok = FALSE is json.JSONDecodeError when digits = 0, and the
\* ValueError of int() when digits > 0.
json_loads(s) == DecodeEnd(s, ScanOnce(s, SkipWs(s, 1)))

(***************************************************************************)
(* json.dumps(obj, ensure_ascii=False, indent=..., sort_keys=...)          *)
(***************************************************************************)

\* The characters of the alphabet in code point order.
CharTable ==
    <<"\t", "\n", "\f", "\r",
      " ", "!", "\"", "#", "$", "%", "&", "'", "(", ")", "*", "+", ",", "-", ".", "/",
      "0", "1", "2", "3", "4", "5", "6", "7", "8", "9", ":", ";", "<", "=", ">", "?",
      "@", "A", "B", "C", "D", "E", "F", "G", "H", "I", "J", "K", "L", "M", "N", "O",
      "P", "Q", "R", "S", "T", "U", "V", "W", "X", "Y", "Z", "[", "\\", "]", "^", "_",
      "a", "b", "c", "d", "e", "f", "g", "h", "i", "j", "k", "l", "m", "n", "o",
      "p", "q", "r", "s", "t", "u", "v", "w", "x", "y", "z", "{", "|", "}", "~">>

CharCode(c) == CHOOSE i \in 1..Len(CharTable) : CharTable[i] = c

\* a < b as Python compares str
RECURSIVE StrLess(_, _)
StrLess(a, b) ==
    IF b = <<>> THEN FALSE
    ELSE IF a = <<>> THEN TRUE
    ELSE IF Head(a) = Head(b) THEN StrLess(Tail(a), Tail(b))
    ELSE CharCode(Head(a)) < CharCode(Head(b))

\* sorted(m.items()) for entries with distinct keys
RECURSIVE SortEntries(_)
SortEntries(m) ==
    IF m = <<>> THEN <<>>
    ELSE LET i == CHOOSE i \in 1..Len(m) : \A j \in 1..Len(m) : j = i \/ StrLess(m[i].k, m[j].k)
         IN  <<m[i]>> \o SortEntries([j \in 1..(Len(m) - 1) |-> IF j < i THEN m[j] ELSE m[j + 1]])

RECURSIVE NatToStr(_)
NatToStr(n) ==
    IF n < 10 THEN <<DigitChars[n + 1]>>
    ELSE NatToStr(n \div 10) \o <<DigitChars[(n % 10) + 1]>>

\* int.__repr__
IntToStr(n) == IF n < 0 THEN <<"-">> \o NatToStr(-n) ELSE NatToStr(n)

Zeros(k) == [i \in 1..k |-> "0"]

\* float.__repr__ of n * 10^e: positional while the decimal point lies within
\* -4 < point <= 16, otherwise exponent notation.
FloatToStr(v) ==
    LET neg == v.n < 0
        d == NatToStr(IF neg THEN -v.n ELSE v.n)
        k == Len(d)
        dp == k + v.e
        x == dp - 1
        body == IF v.n = 0 THEN <<"0", ".", "0">>
                ELSE IF dp > 16 \/ dp <= -4
                THEN <<d[1]>> \o (IF k > 1 THEN <<".">> \o SubSeq(d, 2, k) ELSE <<>>)
                     \o <<"e", IF x < 0 THEN "-" ELSE "+">>
                     \o (LET xs == NatToStr(IF x < 0 THEN -x ELSE x)
                         IN  IF Len(xs) < 2 THEN <<"0">> \o xs ELSE xs)
                ELSE IF v.e >= 0 THEN d \o Zeros(v.e) \o <<".", "0">>
                ELSE IF dp > 0 THEN SubSeq(d, 1, dp) \o <<".">> \o SubSeq(d, dp + 1, k)
                ELSE <<"0", ".">> \o Zeros(-dp) \o d
    IN  IF v.s = <<"n", "a", "n">> THEN L_NaN
        ELSE IF v.s = <<"i", "n", "f">> THEN L_Infinity
        ELSE IF v.s = <<"-", "i", "n", "f">> THEN <<"-">> \o L_Infinity
        ELSE IF v.s = <<"-", "0">> THEN <<"-", "0", ".", "0">>
        ELSE (IF neg THEN <<"-">> ELSE <<>>) \o body

\* A variant that leaves the backslash as it is.
EscapeCharKeepsBackslash(c) ==
    CASE c = "\"" -> <<"\\", "\"">>
      [] c = "\n" -> <<"\\", "n">>
      [] c = "\r" -> <<"\\", "r">>
      [] c = "\t" -> <<"\\", "t">>
      [] c = "\f" -> <<"\\", "f">>
      [] OTHER -> <<c>>

\* json.encoder.ESCAPE_DCT for the alphabet (ensure_ascii=False)
EscapeChar(c) ==
    CASE c = "\"" -> <<"\\", "\"">>
      [] c = "\\" -> <<"\\", "\\">>
      [] c = "\n" -> <<"\\", "n">>
      [] c = "\r" -> <<"\\", "r">>
      [] c = "\t" -> <<"\\", "t">>
      [] c = "\f" -> <<"\\", "f">>
      [] OTHER -> <<c>>

EscapeStr(s) == Flatten([j \in 1..Len(s) |-> EscapeChar(s[j])], 1, Len(s))

\* json.encoder.encode_basestring
QuoteStr(s) == <<"\"">> \o EscapeStr(s) \o <<"\"">>

Spaces(k) == [i \in 1..k |-> " "]

\* What separates two items at nesting depth lvl: ", " on one line, or a comma,
\* a newline and the indentation.
ItemSep(indent, lvl) ==
    IF indent < 0 THEN <<",", " ">> ELSE <<",", "\n">> \o Spaces(indent * lvl)

Open(indent, lvl) == IF indent < 0 THEN <<>> ELSE <<"\n">> \o Spaces(indent * lvl)

\* json.encoder._make_iterencode; v holds no reference. indent < 0 is indent=None.
RECURSIVE Encode(_, _, _, _)
RECURSIVE EncodeItems(_, _, _, _, _)

Encode(v, indent, sort_keys, lvl) ==
    CASE v.t = "str" -> QuoteStr(v.s)
      [] v.t = "None" -> L_null
      [] v.t = "bool" -> IF v.n = 1 THEN L_true ELSE L_false
      [] v.t = "int" -> IntToStr(v.n)
      [] v.t = "float" -> FloatToStr(v)
      [] v.t = "list" ->
            IF v.m = <<>> THEN <<"[", "]">>
            ELSE <<"[">> \o Open(indent, lvl + 1)
                 \o EncodeItems(v.m, FALSE, indent, sort_keys, lvl + 1)
                 \o Open(indent, lvl) \o <<"]">>
      [] v.t = "dict" ->
            IF v.m = <<>> THEN <<"{", "}">>
            ELSE <<"{">> \o Open(indent, lvl + 1)
                 \o EncodeItems(IF sort_keys THEN SortEntries(v.m) ELSE v.m,
                                TRUE, indent, sort_keys, lvl + 1)
                 \o Open(indent, lvl) \o <<"}">>

\* A variant that sorts the keys of the outermost object only.
EncodeItemsSortsRootOnly(m, keyed, indent, sort_keys, lvl) ==
    IF m = <<>> THEN <<>>
    ELSE (IF keyed THEN QuoteStr(Head(m).k) \o <<":", " ">> ELSE <<>>)
         \o Encode(Head(m).v, indent, FALSE, lvl)
         \o (IF Tail(m) = <<>> THEN <<>>
             ELSE ItemSep(indent, lvl) \o EncodeItems(Tail(m), keyed, indent, sort_keys, lvl))

EncodeItems(m, keyed, indent, sort_keys, lvl) ==
    IF m = <<>> THEN <<>>
    ELSE (IF keyed THEN QuoteStr(Head(m).k) \o <<":", " ">> ELSE <<>>)
         \o Encode(Head(m).v, indent, sort_keys, lvl)
         \o (IF Tail(m) = <<>> THEN <<>>
             ELSE ItemSep(indent, lvl) \o EncodeItems(Tail(m), keyed, indent, sort_keys, lvl))

NoIndent == -1

json_dumps(v, indent, sort_keys) == Encode(v, indent, sort_keys, 0)

(***************************************************************************)
(* JsonBuilderNode: the helpers                                            *)
(***************************************************************************)

\* The outcome of a call: the value returned, or the exception raised.
Return(v) == [exc |-> "", msg |-> <<>>, v |-> v]

Raise(name, msg) == [exc |-> name, msg |-> msg, v |-> PyNone]

\* type(v).__name__
TypeName(v) ==
    CASE v.t = "None" -> <<"N", "o", "n", "e", "T", "y", "p", "e">>
      [] v.t = "int" -> <<"i", "n", "t">>
      [] v.t = "float" -> <<"f", "l", "o", "a", "t">>
      [] v.t = "bool" -> <<"b", "o", "o", "l">>
      [] v.t = "list" -> <<"l", "i", "s", "t">>
      [] OTHER -> <<"d", "i", "c", "t">>

\* v.strip() on a v that is not a str
NoStrip(v) ==
    Raise("AttributeError",
          <<"'">> \o TypeName(v) \o <<"'", " ", "o", "b", "j", "e", "c", "t", " ", "h", "a", "s", " ", "n", "o", " ", "a", "t", "t", "r", "i", "b", "u", "t", "e", " ", "'", "s", "t", "r", "i", "p", "'">>)

\* The ValueError of int() for a literal of n digits, as json.loads lets it through.
DigitLimitError(n) ==
    Raise("ValueError",
          <<"E", "x", "c", "e", "e", "d", "s", " ", "t", "h", "e", " ", "l", "i", "m", "i", "t", " ", "(">>
          \o NatToStr(MaxStrDigits)
          \o <<" ", "d", "i", "g", "i", "t", "s", ")", " ", "f", "o", "r", " ", "i", "n", "t", "e", "g", "e", "r", " ", "s", "t", "r", "i", "n", "g", " ", "c", "o", "n", "v", "e", "r", "s", "i", "o", "n", ":", " ", "v", "a", "l", "u", "e", " ", "h", "a", "s", " ">>
          \o NatToStr(n)
          \o <<" ", "d", "i", "g", "i", "t", "s", ";", " ", "u", "s", "e", " ", "s", "y", "s", ".", "s", "e", "t", "_", "i", "n", "t", "_", "m", "a", "x", "_", "s", "t", "r", "_", "d", "i", "g", "i", "t", "s", "(", ")", " ", "t", "o", " ", "i", "n", "c", "r", "e", "a", "s", "e", " ", "t", "h", "e", " ", "l", "i", "m", "i", "t">>)

\* value_str[1:-1] when value_str is wrapped in a pair of " or a pair of '
IsQuoted(s) ==
    \/ startswith(s, "\"") /\ endswith(s, "\"")
    \/ startswith(s, "'") /\ endswith(s, "'")

IsJsonLooking(s) ==
    \/ startswith(s, "{") /\ endswith(s, "}")
    \/ startswith(s, "[") /\ endswith(s, "]")

\* A numeric stage that tries float() whenever int() fails.
ParseNumberTriesBoth(s, low) ==
    IF PyIntParse(s).ok THEN PyIntParse(s) ELSE PyFloatParse(s)

\* int(value_str) when value_str has no '.' and its lower() no 'e', else
\* float(value_str)
ParseNumber(s, low) ==
    IF ~Contains(s, ".") /\ ~Contains(low, "e")
    THEN PyIntParse(s)
    ELSE PyFloatParse(s)

\* A quote removal that strips the text between the quotes again.
NumberOrTextStripsInner(s, num) ==
    IF num.ok THEN num.v
    ELSE IF IsQuoted(s) THEN PyStr(strip(SliceInner(s)))
    ELSE PyStr(s)

\* After the number was tried (num.ok = FALSE is its ValueError): the quotes
\* come off, or the text stays as it is.
NumberOrText(s, num) ==
    IF num.ok THEN num.v
    ELSE IF IsQuoted(s) THEN PyStr(SliceInner(s))
    ELSE PyStr(s)

\* Tests for true, false and null that compare value_str as it is written.
ParseScalarCaseSensitive(s, low) ==
    IF s \in {L_true, L_false} THEN PyBool(s = L_true)
    ELSE IF s = L_null THEN PyNone
    ELSE NumberOrText(s, ParseNumber(s, low))

\* The tests on value_str.lower(), in the order of the source.
ParseScalar(s, low) ==
    IF low \in {L_true, L_false} THEN PyBool(low = L_true)
    ELSE IF low = L_null THEN PyNone
    ELSE NumberOrText(s, ParseNumber(s, low))

\* try: return json.loads(value_str); except json.JSONDecodeError: return value_str
JsonOrText(s, r) ==
    IF r.ok THEN Return(r.v)
    ELSE IF r.digits > 0 THEN DigitLimitError(r.digits)
    ELSE Return(PyStr(s))

\* parse_value from value_str = value_str.strip() on
ParseStripped(s) ==
    IF s = <<>> THEN Return(PyStr(<<>>))
    ELSE IF IsJsonLooking(s) THEN JsonOrText(s, json_loads(s))
    ELSE Return(ParseScalar(s, lower(s)))

\* A parse_value that gives None for a value that is empty or blank.
ParseValueEmptyIsNone(value_str) ==
    IF ~Truthy(value_str) THEN Return(PyNone)
    ELSE IF ~IsStr(value_str) THEN NoStrip(value_str)
    ELSE IF strip(value_str.s) = <<>> THEN Return(PyNone)
    ELSE ParseStripped(strip(value_str.s))

\* A parse_value that works on value_str as given, without value_str.strip().
ParseValueKeepsPadding(value_str) ==
    IF ~Truthy(value_str) THEN Return(PyStr(<<>>))
    ELSE IF ~IsStr(value_str) THEN NoStrip(value_str)
    ELSE IF strip(value_str.s) = <<>> THEN Return(PyStr(<<>>))
    ELSE ParseStripped(value_str.s)

\* parse_value(value_str): `not value_str` holds of every falsy value; any
\* other value that is not a str has no strip().
parse_value(value_str) ==
    IF ~Truthy(value_str) THEN Return(PyStr(<<>>))
    ELSE IF ~IsStr(value_str) THEN NoStrip(value_str)
    ELSE ParseStripped(strip(value_str.s))

\* A safe_json_parse that gives None for a JSON value that is not an object.
WrapParsedSkipsNonObject(parsed) ==
    IF parsed.digits > 0 THEN DigitLimitError(parsed.digits)
    ELSE IF ~parsed.ok THEN Return(PyNone)
    ELSE IF parsed.v.t = "dict" THEN Return(parsed.v)
    ELSE Return(PyNone)

\* A safe_json_parse without its except clause.
WrapParsedRaises(parsed) ==
    IF ~parsed.ok THEN Raise("JSONDecodeError", <<>>)
    ELSE IF parsed.v.t = "dict" THEN Return(parsed.v)
    ELSE Return(PyDict(<<Entry(L_data, parsed.v)>>))

\* What safe_json_parse makes of json.loads' outcome.
WrapParsed(parsed) ==
    IF parsed.digits > 0 THEN DigitLimitError(parsed.digits)
    ELSE IF ~parsed.ok THEN Return(PyNone)
    ELSE IF parsed.v.t = "dict" THEN Return(parsed.v)
    ELSE Return(PyDict(<<Entry(L_data, parsed.v)>>))

LoadsStripped(s) == IF s = <<>> THEN Return(PyNone) ELSE WrapParsed(json_loads(s))

\* safe_json_parse(json_str): None for an empty or unparseable text, the
\* parsed dict, or {"data": parsed} for any other JSON value.
safe_json_parse(json_str) ==
    IF ~Truthy(json_str) THEN Return(PyNone)
    ELSE IF ~IsStr(json_str) THEN NoStrip(json_str)
    ELSE LoadsStripped(strip(json_str.s))

(***************************************************************************)
(* The heap of dicts                                                       *)
(***************************************************************************)

\* A dict that becomes reachable from a dict of the heap gets an address of
\* its own, and so do the dicts that are its values; lists stay values.
RECURSIVE Box(_, _)
RECURSIVE BoxEntries(_, _, _)

Box(h, v) ==
    IF v.t = "dict"
    THEN LET r == BoxEntries(h, v.m, <<>>)
         IN  [h |-> Append(r.h, r.m), v |-> Ref(Len(r.h) + 1)]
    ELSE [h |-> h, v |-> v]

BoxEntries(h, m, acc) ==
    IF m = <<>> THEN [h |-> h, m |-> acc]
    ELSE LET b == Box(h, Head(m).v)
         IN  BoxEntries(b.h, Tail(m), Append(acc, Entry(Head(m).k, b.v)))

\* The value a reference stands for, with every reference below it resolved.
RECURSIVE Deref(_, _)
Deref(h, v) ==
    IF v.t = "ref"
    THEN PyDict([j \in 1..Len(h[v.n]) |-> Entry(h[v.n][j].k, Deref(h, h[v.n][j].v))])
    ELSE v

(***************************************************************************)
(* JsonBuilderNode.merge_json_objects and the steps of build_json          *)
(***************************************************************************)

\* The outcome of a step: the exception raised if any, the heap, a value.
Out(exc, msg, h, v) == [exc |-> exc, msg |-> msg, h |-> h, v |-> v]

Fault(r, h) == Out(r.exc, r.msg, h, PyNone)

\* A copy that is the dict itself under another name.
CopyIsAlias(h, obj) == [h |-> h, v |-> obj]

\* obj.copy(): a new dict with the entries of obj, the dicts among its values
\* shared with obj.
copy(h, obj) == [h |-> Append(h, h[obj.n]), v |-> Ref(Len(h) + 1)]

\* A branch for the target key that always stores merge_obj under it.
MergeAtKeyReplaces(h, result, merge_obj, tk) ==
    Out("", <<>>, [h EXCEPT ![result.n] = DictSet(@, tk, merge_obj)], result)

\* A branch for the target key that leaves a value that is not a dict alone.
MergeAtKeyKeepsValue(h, result, merge_obj, tk) ==
    IF HasKey(h[result.n], tk)
    THEN IF IsDict(DictGet(h[result.n], tk))
         THEN Out("", <<>>,
                  [h EXCEPT ![DictGet(h[result.n], tk).n] = DictUpdate(@, h[merge_obj.n])],
                  result)
         ELSE Out("", <<>>, h, result)
    ELSE Out("", <<>>, [h EXCEPT ![result.n] = DictSet(@, tk, merge_obj)], result)

\* `if target_key:` holds: update the dict under the key, or store merge_obj
\* under it.
MergeAtKey(h, result, merge_obj, tk) ==
    IF HasKey(h[result.n], tk) /\ IsDict(DictGet(h[result.n], tk))
    THEN Out("", <<>>,
             [h EXCEPT ![DictGet(h[result.n], tk).n] = DictUpdate(@, h[merge_obj.n])],
             result)
    ELSE Out("", <<>>, [h EXCEPT ![result.n] = DictSet(@, tk, merge_obj)], result)

\* A root merge that keeps the value of a key the base already has.
MergeAtRootKeepsBase(h, result, merge_obj) ==
    Out("", <<>>, [h EXCEPT ![result.n] = DictUpdate(h[merge_obj.n], @)], result)

\* result.update(merge_obj)
MergeAtRoot(h, result, merge_obj) ==
    Out("", <<>>, [h EXCEPT ![result.n] = DictUpdate(@, h[merge_obj.n])], result)

\* target_key = target_key.strip() if target_key else ""
TargetKey(target_key) == IF Truthy(target_key) THEN strip(target_key.s) ELSE <<>>

\* merge_json_objects from the isinstance test on, c being the copy of base_obj.
MergeInto(c, merge_obj, target_key) ==
    IF ~IsDict(merge_obj) THEN Out("", <<>>, c.h, c.v)
    ELSE IF Truthy(target_key) /\ ~IsStr(target_key) THEN Fault(NoStrip(target_key), c.h)
    ELSE IF TargetKey(target_key) # <<>>
    THEN MergeAtKey(c.h, c.v, merge_obj, TargetKey(target_key))
    ELSE MergeAtRoot(c.h, c.v, merge_obj)

\* merge_json_objects(base_obj, merge_obj, target_key); v is the dict returned.
merge_json_objects(h, base_obj, merge_obj, target_key) ==
    MergeInto(copy(h, base_obj), merge_obj, target_key)

NumSlots == 5

\* json_obj[key] = parsed_value, b being the value once it lives in the heap
StoreBoxed(json_obj, key, b) ==
    Out("", <<>>, [b.h EXCEPT ![json_obj.n] = DictSet(@, key, b.v)], json_obj)

StoreParsed(h, json_obj, key, parsed_value) ==
    IF parsed_value.exc # "" THEN Fault(parsed_value, h)
    ELSE StoreBoxed(json_obj, key, Box(h, parsed_value.v))

StoreAt(h, json_obj, key, value) ==
    IF key = <<>> THEN Out("", <<>>, h, json_obj)
    ELSE StoreParsed(h, json_obj, key, parse_value(value))

\* One pass of the loop over the key/value pairs, on the dict at json_obj.
AssembleSlot(h, json_obj, key, value) ==
    IF ~Truthy(key) THEN Out("", <<>>, h, json_obj)
    ELSE IF ~IsStr(key) THEN Fault(NoStrip(key), h)
    ELSE StoreAt(h, json_obj, strip(key.s), value)

MergeBoxed(b, json_obj, merge_to_key) ==
    merge_json_objects(b.h, json_obj, b.v, PyStr(strip(merge_to_key.s)))

\* From `if merge_obj is not None` on.
MergeParsed(h, json_obj, merge_obj, merge_to_key) ==
    IF merge_obj.exc # "" THEN Fault(merge_obj, h)
    ELSE IF merge_obj.v = PyNone THEN Out("", <<>>, h, json_obj)
    ELSE IF ~IsStr(merge_to_key) THEN Fault(NoStrip(merge_to_key), h)
    ELSE MergeBoxed(Box(h, merge_obj.v), json_obj, merge_to_key)

\* The merge of the sub-object; v is the dict json_obj names afterwards.
MergeStep(h, json_obj, merge_json, merge_to_key) ==
    IF ~Truthy(merge_json) THEN Out("", <<>>, h, json_obj)
    ELSE IF ~IsStr(merge_json) THEN Fault(NoStrip(merge_json), h)
    ELSE IF strip(merge_json.s) = <<>> THEN Out("", <<>>, h, json_obj)
    ELSE MergeParsed(h, json_obj, safe_json_parse(merge_json), merge_to_key)

\* An else branch that returns the one-line text in both places.
DumpsOfOneTextTwice(obj, pretty_format, sort_keys, passthrough) ==
    IF pretty_format
    THEN <<json_dumps(obj, 2, sort_keys), json_dumps(obj, 2, sort_keys), passthrough>>
    ELSE <<json_dumps(obj, NoIndent, sort_keys), json_dumps(obj, NoIndent, sort_keys), passthrough>>

\* json.dumps(json_obj, ensure_ascii=False, indent=..., sort_keys=sort_keys)
DumpsOf(obj, pretty_format, sort_keys, passthrough) ==
    IF pretty_format
    THEN <<json_dumps(obj, 2, sort_keys), json_dumps(obj, 2, sort_keys), passthrough>>
    ELSE <<json_dumps(obj, NoIndent, sort_keys), json_dumps(obj, 2, sort_keys), passthrough>>

\* The two json.dumps calls and the tuple returned.
DumpsStep(h, json_obj, pretty_format, sort_keys, passthrough) ==
    DumpsOf(Deref(h, json_obj), Truthy(pretty_format), Truthy(sort_keys), passthrough)

\* The text before str(e) in error_msg; each character outside ASCII is named
\* by its code point.
ErrorPrefix == <<"J", "S", "O", "N", "U+6784", "U+5EFA", "U+9519", "U+8BEF", ":", " ">>

L_error == <<"e", "r", "r", "o", "r">>

L_success == <<"s", "u", "c", "c", "e", "s", "s">>

error_json(msg) ==
    PyDict(<<Entry(L_error, PyStr(ErrorPrefix \o msg)), Entry(L_success, PyBool(FALSE))>>)

\* An except block that returns None in the third place.
ExceptStepDropsPassthrough(msg, passthrough) ==
    <<json_dumps(error_json(msg), 2, FALSE), json_dumps(error_json(msg), 2, FALSE), PyNone>>

\* The except block: the tuple returned for the exception with message msg.
ExceptStep(msg, passthrough) ==
    <<json_dumps(error_json(msg), 2, FALSE), json_dumps(error_json(msg), 2, FALSE), passthrough>>

\* A handler that names one exception type instead of Exception.
CatchesValueErrorOnly(exc) == exc = "ValueError"

\* except Exception as e: every exception the steps raise is an Exception.
Catches(exc) == TRUE

(***************************************************************************)
(* The inputs of build_json                                                *)
(***************************************************************************)

\* A name the caller did not pass: kwargs.get(name, default) gives default.
Absent == Val("absent", 0, 0, <<>>, <<>>)

\* A local name not assigned yet.
Unbound == Val("unbound", 0, 0, <<>>, <<>>)

KwGet(v, default) == IF v.t = "absent" THEN default ELSE v

T_empty == <<>>

T_a == <<"a">>

T_a_padded == <<" ", "a", "\t">>

T_b == <<"b">>

T_b_padded == <<" ", "b", "\t">>

T_c == <<"c">>

T_blank == <<" ", "\n">>

T_space == <<" ">>

T_one == <<"1">>

T_quoted == <<"'", "q", "'">>

T_object == <<"{", "\"", "x", "\"", ":", " ", "1", ",", " ", "\"", "y", "\"", ":", " ", "2", "}">>

T_array == <<"[", "1", "]">>

T_broken == <<"{", "b", "r", "o", "k", "e", "n">>

T_fragment == <<"{", "\"", "x", "\"", ":", " ", "9", ",", " ", "\"", "a", "\"", ":", " ", "{", "\"", "k", "\"", ":", " ", "2", "}", "}">>

T_empty_object == <<"{", "}">>

T_list == <<"[", "1", ",", " ", "2", "]">>

T_null == <<"n", "u", "l", "l">>

T_formfeed == <<"\f", "[", "1", "]", "\f">>

T_p == <<"p">>

\* An array whose one item is an integer literal of MaxStrDigits + 1 digits.
T_long_array == <<"[">> \o [j \in 1..(MaxStrDigits + 1) |-> "1"] \o <<"]">>

\* At most this many of the five pairs are passed in the calls that vary the pairs.
MaxFilled == 2

Slots == 1..NumSlots

NoPair == [key |-> Absent, value |-> Absent]

Pair(k, v) == [key |-> k, value |-> v]

Kwargs(pairs, mj, mk, pf, sk, pt) ==
    [pair |-> pairs, merge_json |-> mj, merge_to_key |-> mk,
     pretty_format |-> pf, sort_keys |-> sk, passthrough |-> pt]

PairsOn(P, f) == [j \in Slots |-> IF j \in P THEN f[j] ELSE NoPair]

StrPairs ==
    {Pair(PyStr(k), PyStr(v)) : k \in {T_a, T_a_padded, T_b, T_blank},
                                v \in {T_one, T_object}}

\* Keys and values that are not str, next to a well-formed pair.
OddPairs ==
    {Pair(PyInt(7), PyStr(T_one)), Pair(PyStr(T_a), PyInt(5)),
     Pair(PyNone, PyStr(T_one)), Pair(PyStr(T_a), PyNone),
     Pair(PyInt(0), PyStr(T_one)), Pair(PyStr(T_c), PyList(<<Item(PyInt(1))>>))}

Flags == {Absent, PyBool(TRUE), PyBool(FALSE)}

\* Calls that vary the pairs: any MaxFilled of the five slots, no merge.
PairCalls ==
    UNION {{Kwargs(PairsOn(P, f), Absent, Absent, Absent, Absent, Absent) : f \in [P -> StrPairs]}
           : P \in {S \in SUBSET Slots : Cardinality(S) <= MaxFilled}}

\* Calls with one pair that is not made of two str, after a well-formed one.
OddCalls ==
    {Kwargs([j \in Slots |-> IF j = q THEN o ELSE IF j = 1 THEN Pair(PyStr(T_b), PyStr(T_one)) ELSE NoPair],
            Absent, Absent, Absent, Absent, pt)
     : q \in Slots, o \in OddPairs, pt \in {Absent, PyStr(T_p)}}

\* The bases the merge calls build: none; a scalar and an object; an array.
BasePairs ==
    {[j \in Slots |-> NoPair],
     [j \in Slots |-> IF j = 1 THEN Pair(PyStr(T_a), PyStr(T_one))
                      ELSE IF j = 2 THEN Pair(PyStr(T_b), PyStr(T_object))
                      ELSE NoPair],
     [j \in Slots |-> IF j = 2 THEN Pair(PyStr(L_data), PyStr(T_array))
                      ELSE IF j = 4 THEN Pair(PyStr(T_b_padded), PyStr(T_quoted))
                      ELSE NoPair]}

MergeTexts ==
    {Absent, PyNone, PyInt(5)}
    \cup {PyStr(s) : s \in {T_empty, T_blank, T_broken, T_fragment, T_empty_object,
                            T_list, T_null, T_formfeed, T_long_array}}

MergeKeys ==
    {Absent, PyNone, PyInt(3)}
    \cup {PyStr(s) : s \in {T_empty, T_space, T_a, T_b_padded, T_c, L_data}}

\* Calls that vary the merge, the options and the passthrough value.
MergeCalls ==
    {Kwargs(b, mj, mk, pf, sk, pt)
     : b \in BasePairs, mj \in MergeTexts, mk \in MergeKeys,
       pf \in Flags, sk \in Flags, pt \in {Absent, PyStr(T_p)}}

\* Calls with a pair whose value is missing, empty or blank, after a
\* well-formed pair.
EmptyValueCalls ==
    {Kwargs([j \in Slots |-> IF j = q THEN Pair(PyStr(k), v)
                             ELSE IF j = 1 THEN Pair(PyStr(T_a), PyStr(T_one))
                             ELSE NoPair],
            Absent, Absent, Absent, Absent, Absent)
     : q \in Slots, k \in {T_a_padded, T_c},
       v \in {Absent, PyStr(T_empty), PyStr(T_blank), PyStr(T_space)}}

T_name == <<"n", "a", "m", "e">>

T_Alice == <<"A", "l", "i", "c", "e">>

T_age == <<"a", "g", "e">>

T_30 == <<"3", "0">>

T_active == <<"a", "c", "t", "i", "v", "e">>

\* The pairs (name, Alice), (age, 30), (active, true) in slots 1 to 3.
NamedPairs ==
    [j \in Slots |-> IF j = 1 THEN Pair(PyStr(T_name), PyStr(T_Alice))
                     ELSE IF j = 2 THEN Pair(PyStr(T_age), PyStr(T_30))
                     ELSE IF j = 3 THEN Pair(PyStr(T_active), PyStr(L_true))
                     ELSE NoPair]

\* Calls with these pairs and no merge, under every setting of the options.
NamedCalls == {Kwargs(NamedPairs, Absent, Absent, pf, sk, Absent) : pf \in Flags, sk \in Flags}

T_nan_array == <<"[", "N", "a", "N", "]">>

T_huge_object == <<"{", "\"", "a", "\"", ":", " ", "1", "e", "9", "9", "9", "}">>

T_escapes == <<"a", "\"", "b", "\\", "c">>

T_2_50 == <<"2", ".", "5", "0">>

T_minus_7 == <<"-", "7">>

\* Values whose texts need care on the way out and back: non-finite floats, a
\* quote and a backslash inside a str, a float, a negative int.
TypedTexts == {T_nan_array, T_huge_object, T_escapes, T_2_50, T_minus_7}

\* Calls with one such value under b and an object under a, no merge, under
\* every setting of the options.
TypedCalls ==
    {Kwargs([j \in Slots |-> IF j = 1 THEN Pair(PyStr(T_b), PyStr(v))
                             ELSE IF j = 2 THEN Pair(PyStr(T_a), PyStr(T_object))
                             ELSE NoPair],
            Absent, Absent, pf, sk, Absent)
     : v \in TypedTexts, pf \in Flags, sk \in Flags}

\* The pairs (b, 1), (a, 1), (c, 'q'), ( a , {"x": 1, "y": 2}), (  b , [1]):
\* a and b come twice, a first in slot 2.
RepeatedPairs ==
    [j \in Slots |-> IF j = 1 THEN Pair(PyStr(T_b), PyStr(T_one))
                     ELSE IF j = 2 THEN Pair(PyStr(T_a), PyStr(T_one))
                     ELSE IF j = 3 THEN Pair(PyStr(T_c), PyStr(T_quoted))
                     ELSE IF j = 4 THEN Pair(PyStr(T_a_padded), PyStr(T_object))
                     ELSE Pair(PyStr(T_b_padded), PyStr(T_array))]

\* Calls with these pairs, without merge and with a merge at the root that
\* adds a key, under every setting of the options.
RepeatedCalls ==
    {Kwargs(RepeatedPairs, mj, Absent, pf, sk, Absent)
     : mj \in {Absent, PyStr(T_list)}, pf \in Flags, sk \in Flags}

Calls ==
    PairCalls \cup OddCalls \cup MergeCalls \cup EmptyValueCalls \cup NamedCalls \cup TypedCalls
        \cup RepeatedCalls

(***************************************************************************)
(* build_json, step by step                                                *)
(***************************************************************************)

VARIABLES
    pc,             \* where the call stands
    kwargs,         \* the keyword arguments of the call
    pretty_format, sort_keys, merge_json, merge_to_key, passthrough,
    i,              \* the loop index
    json_obj,       \* the dict under construction
    base_obj,       \* the dict the merge was given
    heap,           \* the dicts of the call
    e,              \* the exception caught
    ret,            \* what the call returned
    value_str,      \* the argument of a call of parse_value on its own
    parsed_value,   \* what that call returned
    suspended,      \* the activation of build_json that is not running
    merging,        \* a call of merge_json_objects on its own, and a second one
    make_request,   \* a call of APIRequestNode.make_request
    remove_empty_lines,         \* a call of RemoveEmptyLinesNode.remove_empty_lines
    process_multiline_prompt,   \* a call of MultilinePromptNode.process_multiline_prompt
    download_audio, \* two calls of LoadAudioFromUrlNode.download_audio
    files           \* the files of the input directory download_audio writes to

locals == <<pretty_format, sort_keys, merge_json, merge_to_key, passthrough>>

parse == <<value_str, parsed_value>>

\* What a step of build_json leaves alone: no statement of it reaches a call
\* of parse_value on its own, the locals of another activation or a call of a
\* method of another node.
nodes == <<merging, make_request, remove_empty_lines, process_multiline_prompt,
          download_audio, files>>

rest == <<parse, suspended, nodes>>

vars == <<pc, kwargs, locals, i, json_obj, base_obj, heap, e, ret, rest>>

NoCall == Kwargs([j \in Slots |-> NoPair], Absent, Absent, Absent, Absent, Absent)

NoException == [exc |-> "", msg |-> <<>>]

\* An activation that has not been called: no local is bound.
NoActivation ==
    [pc |-> "idle", kwargs |-> NoCall,
     pretty_format |-> Unbound, sort_keys |-> Unbound, merge_json |-> Unbound,
     merge_to_key |-> Unbound, passthrough |-> Unbound,
     i |-> 0, json_obj |-> Unbound, base_obj |-> Unbound, heap |-> <<>>,
     e |-> NoException, ret |-> <<>>]

\* A method that is not being called.
NotCalled == [pc |-> "none"]

NodesIdle ==
    /\ merging = NotCalled
    /\ make_request = NotCalled
    /\ remove_empty_lines = NotCalled
    /\ process_multiline_prompt = NotCalled
    /\ download_audio = NotCalled
    /\ files = {}

Init ==
    /\ pc = "idle"
    /\ kwargs = NoCall
    /\ pretty_format = Unbound
    /\ sort_keys = Unbound
    /\ merge_json = Unbound
    /\ merge_to_key = Unbound
    /\ passthrough = Unbound
    /\ i = 0
    /\ json_obj = Unbound
    /\ base_obj = Unbound
    /\ heap = <<>>
    /\ e = NoException
    /\ ret = <<>>
    /\ value_str = Unbound
    /\ parsed_value = Unbound
    /\ suspended = NoActivation
    /\ NodesIdle

\* The host calls build_json with the keyword arguments kw.
Invoke ==
    /\ pc = "idle"
    /\ \E kw \in Calls : kwargs' = kw
    /\ pc' = "try"
    /\ UNCHANGED <<locals, i, json_obj, base_obj, heap, e, ret, rest>>

\* Lines 178-185: the options, and json_obj = {}.
GetArgs ==
    /\ pc = "try"
    /\ pretty_format' = KwGet(kwargs.pretty_format, PyBool(TRUE))
    /\ sort_keys' = KwGet(kwargs.sort_keys, PyBool(FALSE))
    /\ merge_json' = KwGet(kwargs.merge_json, PyStr(<<>>))
    /\ merge_to_key' = KwGet(kwargs.merge_to_key, PyStr(<<>>))
    /\ passthrough' = KwGet(kwargs.passthrough, PyNone)
    /\ heap' = <<(<<>>)>>
    /\ json_obj' = Ref(1)
    /\ i' = 1
    /\ pc' = "slots"
    /\ UNCHANGED <<kwargs, base_obj, e, ret, rest>>

\* An exception raised inside the try block by the step with outcome r.
Thrown(r) ==
    /\ e' = [exc |-> r.exc, msg |-> r.msg]
    /\ pc' = IF Catches(r.exc) THEN "except" ELSE "escaped"

\* The pass of the loop with outcome r.
SlotOutcome(r) ==
    IF r.exc # ""
    THEN /\ Thrown(r)
         /\ UNCHANGED <<kwargs, locals, i, json_obj, base_obj, heap, ret, rest>>
    ELSE /\ heap' = r.h
         /\ i' = i + 1
         /\ pc' = IF i = NumSlots THEN "merge" ELSE "slots"
         /\ UNCHANGED <<kwargs, locals, json_obj, base_obj, e, ret, rest>>

\* Lines 188-195: the pass of the loop for pair i.
Slot ==
    /\ pc = "slots"
    /\ SlotOutcome(AssembleSlot(heap, json_obj,
                                KwGet(kwargs.pair[i].key, PyStr(<<>>)),
                                KwGet(kwargs.pair[i].value, PyStr(<<>>))))

\* The merge with outcome r.
MergeOutcome(r) ==
    IF r.exc # ""
    THEN /\ Thrown(r)
         /\ UNCHANGED <<kwargs, locals, i, json_obj, base_obj, heap, ret, rest>>
    ELSE /\ heap' = r.h
         /\ json_obj' = r.v
         /\ base_obj' = json_obj
         /\ pc' = "dumps"
         /\ UNCHANGED <<kwargs, locals, i, e, ret, rest>>

\* Lines 198-214: the merge of merge_json.
Merge ==
    /\ pc = "merge"
    /\ MergeOutcome(MergeStep(heap, json_obj, merge_json, merge_to_key))

\* Lines 216-224: serialize and return.
Dumps ==
    /\ pc = "dumps"
    /\ ret' = DumpsStep(heap, json_obj, pretty_format, sort_keys, passthrough)
    /\ pc' = "done"
    /\ UNCHANGED <<kwargs, locals, i, json_obj, base_obj, heap, e, rest>>

\* Lines 226-234: the except block; it reads passthrough, which the try block
\* must have assigned.
Except ==
    /\ pc = "except"
    /\ IF passthrough = Unbound
       THEN /\ pc' = "escaped"
            /\ ret' = ret
       ELSE /\ ret' = ExceptStep(e.msg, passthrough)
            /\ pc' = "done"
    /\ UNCHANGED <<kwargs, locals, i, json_obj, base_obj, heap, e, rest>>

\* The call is over; the node keeps nothing of it.
Finish ==
    /\ pc \in {"done", "escaped"}
    /\ pc' = "idle"
    /\ kwargs' = NoCall
    /\ pretty_format' = Unbound
    /\ sort_keys' = Unbound
    /\ merge_json' = Unbound
    /\ merge_to_key' = Unbound
    /\ passthrough' = Unbound
    /\ i' = 0
    /\ json_obj' = Unbound
    /\ base_obj' = Unbound
    /\ heap' = <<>>
    /\ e' = NoException
    /\ ret' = <<>>
    /\ UNCHANGED rest

Next == Invoke \/ GetArgs \/ Slot \/ Merge \/ Dumps \/ Except \/ Finish

Spec == Init /\ [][Next]_vars

(***************************************************************************)
(* Two activations of build_json, interleaved                              *)
(***************************************************************************)

\* Calls for two activations at a time: the three named pairs on one line, a
\* merge into the object under b, a merge that raises, and a pair of values
\* out of key order under sort_keys.
ConcurrentCalls ==
    {Kwargs(NamedPairs, Absent, Absent, PyBool(FALSE), PyBool(FALSE), Absent),
     Kwargs([j \in Slots |-> IF j = 1 THEN Pair(PyStr(T_a), PyStr(T_one))
                             ELSE IF j = 2 THEN Pair(PyStr(T_b), PyStr(T_object))
                             ELSE NoPair],
            PyStr(T_fragment), PyStr(T_b_padded), Absent, Absent, PyStr(T_p)),
     Kwargs([j \in Slots |-> IF j = 1 THEN Pair(PyStr(T_a), PyStr(T_one)) ELSE NoPair],
            PyStr(T_fragment), PyNone, Absent, Absent, PyStr(T_p)),
     Kwargs([j \in Slots |-> IF j = 1 THEN Pair(PyStr(T_b), PyStr(T_escapes))
                             ELSE IF j = 2 THEN Pair(PyStr(T_a), PyStr(T_object))
                             ELSE NoPair],
            Absent, Absent, Absent, PyBool(TRUE), Absent)}

\* The host calls build_json while another activation may be under way.
InvokeConcurrently ==
    /\ pc = "idle"
    /\ \E kw \in ConcurrentCalls : kwargs' = kw
    /\ pc' = "try"
    /\ UNCHANGED <<locals, i, json_obj, base_obj, heap, e, ret, rest>>

\* The locals of the running activation: build_json keeps everything in
\* locals, nothing on self or in the module.
Activation ==
    [pc |-> pc, kwargs |-> kwargs,
     pretty_format |-> pretty_format, sort_keys |-> sort_keys, merge_json |-> merge_json,
     merge_to_key |-> merge_to_key, passthrough |-> passthrough,
     i |-> i, json_obj |-> json_obj, base_obj |-> base_obj, heap |-> heap,
     e |-> e, ret |-> ret]

\* A variant in which json_obj is one object for all activations, as it would
\* be if kept on self.
ResumedSharesObject(saved, running) ==
    IF saved.json_obj # Unbound /\ running.json_obj # Unbound
    THEN [saved EXCEPT !.json_obj = running.json_obj, !.heap = running.heap]
    ELSE saved

\* What the activation saved finds in its locals when it runs again after
\* the activation running: what it left there.
Resumed(saved, running) == saved

Resume(a) ==
    /\ pc' = a.pc
    /\ kwargs' = a.kwargs
    /\ pretty_format' = a.pretty_format
    /\ sort_keys' = a.sort_keys
    /\ merge_json' = a.merge_json
    /\ merge_to_key' = a.merge_to_key
    /\ passthrough' = a.passthrough
    /\ i' = a.i
    /\ json_obj' = a.json_obj
    /\ base_obj' = a.base_obj
    /\ heap' = a.heap
    /\ e' = a.e
    /\ ret' = a.ret

\* The scheduler (or the host, between two calls) passes from the running
\* activation to the other one, at any point of either.
Switch ==
    /\ suspended' = Activation
    /\ Resume(Resumed(suspended, Activation))
    /\ UNCHANGED <<parse, nodes>>

NextConcurrent ==
    InvokeConcurrently \/ GetArgs \/ Slot \/ Merge \/ Dumps \/ Except \/ Finish \/ Switch

SpecConcurrent == Init /\ [][NextConcurrent]_vars

(***************************************************************************)
(* build_json as one function of its keyword arguments                     *)
(***************************************************************************)

\* What the call returns when the step with outcome r raised.
Handler(r, pt) == IF Catches(r.exc) THEN ExceptStep(r.msg, pt) ELSE <<>>

RECURSIVE AssembleFrom(_, _, _, _)
RECURSIVE AssembleNext(_, _, _)

\* The passes of the loop from pair j on.
AssembleFrom(h, obj, pairs, j) ==
    IF j > NumSlots THEN Out("", <<>>, h, obj)
    ELSE AssembleNext(pairs, j, AssembleSlot(h, obj, KwGet(pairs[j].key, PyStr(<<>>)),
                                             KwGet(pairs[j].value, PyStr(<<>>))))

AssembleNext(pairs, j, r) ==
    IF r.exc # "" THEN r ELSE AssembleFrom(r.h, r.v, pairs, j + 1)

AfterMerge(kw, m) ==
    IF m.exc # "" THEN Handler(m, KwGet(kw.passthrough, PyNone))
    ELSE DumpsStep(m.h, m.v, KwGet(kw.pretty_format, PyBool(TRUE)),
                   KwGet(kw.sort_keys, PyBool(FALSE)), KwGet(kw.passthrough, PyNone))

AfterAssemble(kw, a) ==
    IF a.exc # "" THEN Handler(a, KwGet(kw.passthrough, PyNone))
    ELSE AfterMerge(kw, MergeStep(a.h, a.v, KwGet(kw.merge_json, PyStr(<<>>)),
                                  KwGet(kw.merge_to_key, PyStr(<<>>))))

\* build_json(**kw): the tuple returned, <<>> if an exception leaves the call.
build_json(kw) == AfterAssemble(kw, AssembleFrom(<<(<<>>)>>, Ref(1), kw.pair, 1))

(***************************************************************************)
(* parse_value on its own                                                  *)
(***************************************************************************)

T_42 == <<"4", "2">>

T_4_5 == <<"4", ".", "5">>

T_true == <<"t", "r", "u", "e">>

T_NULL == <<"N", "U", "L", "L">>

T_abc == <<"a", "b", "c">>

T_x_spaced == <<" ", "x", " ">>

T_json == <<"{", "\"", "a", "\"", ":", " ", "1", "}">>

T_backslash_n == <<"a", "\\", "n", "b">>

T_1e3 == <<"1", "e", "3">>

T_inner_quote == <<"a", "\"", "b">>

T_inner_apostrophe == <<"'">>

T_inf == <<"i", "n", "f">>

T_1E3 == <<"1", "E", "3">>

T_tRuE == <<"t", "R", "u", "E">>

T_False == <<"F", "a", "l", "s", "e">>

T_1_0 == <<"1", "_", "0">>

T_plus_7 == <<"+", "7">>

T_1e == <<"1", "e">>

T_bad_array == <<"[", "1", ",", "]">>

\* The texts between the quotes, or alone.
Cores ==
    {T_empty, T_42, T_4_5, T_true, T_NULL, T_abc, T_x_spaced, T_json, T_backslash_n,
     T_1e3, T_inner_quote, T_inner_apostrophe, T_inf, T_1E3, T_tRuE, T_False, T_1_0,
     T_plus_7, T_1e, T_bad_array}

\* A first and a last character around a core: none, a matching pair of
\* quotes, or two quotes that do not match.
Wrappers ==
    {<< <<>>, <<>> >>, << <<"\"">>, <<"\"">> >>, << <<"'">>, <<"'">> >>,
     << <<"\"">>, <<"'">> >>, << <<"'">>, <<"\"">> >>}

\* Whitespace before and after.
Paddings ==
    {<< <<>>, <<>> >>, << <<" ">>, <<>> >>, << <<>>, <<"\n">> >>, << <<"\t", " ">>, <<" ", "\f">> >>}

ValueTexts ==
    {pad[1] \o w[1] \o c \o w[2] \o pad[2] : pad \in Paddings, w \in Wrappers, c \in Cores}

ValueInputs ==
    {PyStr(s) : s \in ValueTexts}
    \cup {PyStr(T_long_array), PyStr(<<" ">> \o T_long_array \o <<"\n">>)}
    \cup {PyNone, PyInt(0), PyInt(5), PyList(<<>>)}

ParseInit ==
    /\ pc = "parse_value"
    /\ kwargs = NoCall
    /\ pretty_format = Unbound
    /\ sort_keys = Unbound
    /\ merge_json = Unbound
    /\ merge_to_key = Unbound
    /\ passthrough = Unbound
    /\ i = 0
    /\ json_obj = Unbound
    /\ base_obj = Unbound
    /\ heap = <<>>
    /\ e = NoException
    /\ ret = <<>>
    /\ value_str \in ValueInputs
    /\ parsed_value = Unbound
    /\ suspended = NoActivation
    /\ NodesIdle

\* parsed_value = self.parse_value(value_str)
ParseValue ==
    /\ pc = "parse_value"
    /\ parsed_value' = parse_value(value_str)
    /\ pc' = "parsed"
    /\ UNCHANGED <<kwargs, locals, i, json_obj, base_obj, heap, e, ret, value_str, suspended, nodes>>

ParseNext == ParseValue

SpecParse == ParseInit /\ [][ParseNext]_vars

(***************************************************************************)
(* Properties                                                              *)
(***************************************************************************)

KeyOf(j) == KwGet(kwargs.pair[j].key, PyStr(<<>>))

ValueOf(j) == KwGet(kwargs.pair[j].value, PyStr(<<>>))

\* The str inputs of the call in flight.
MergeJsonIn == KwGet(kwargs.merge_json, PyStr(<<>>))

MergeToKeyIn == KwGet(kwargs.merge_to_key, PyStr(<<>>))

SomeInputNotStr ==
    \/ \E j \in Slots : ~IsStr(KeyOf(j)) \/ ~IsStr(ValueOf(j))
    \/ ~IsStr(MergeJsonIn)
    \/ ~IsStr(MergeToKeyIn)

\* s is the text of a JSON object whose only keys are "error", a str, and
\* "success", false.
IsErrorObject(r) ==
    /\ r.ok
    /\ r.v.t = "dict"
    /\ Keys(r.v.m) = {L_error, L_success}
    /\ Len(r.v.m) = 2
    /\ DictGet(r.v.m, L_error).t = "str"
    /\ DictGet(r.v.m, L_success) = PyBool(FALSE)

IsErrorText(s) == IsErrorObject(json_loads(s))

\* C1: no exception leaves build_json, whatever the types of its inputs: a
\* call that is over has returned exactly three values, and when an exception
\* was raised inside it the first two are one and the same text, that of an
\* object with exactly the keys "error" (a str) and "success" (false).
C1_NeverRaises ==
    /\ pc # "escaped"
    /\ pc = "done" => Len(ret) = 3
    /\ (pc = "done" /\ e.exc # "") => ret[1] = ret[2] /\ IsErrorText(ret[1])

\* C1 witness: a call given None as merge_to_key next to a fragment that
\* parses has ended, the AttributeError caught.
C1_Witness ==
    /\ pc = "done"
    /\ e.exc = "AttributeError"
    /\ kwargs.merge_to_key = PyNone
    /\ Len(ret) = 3

\* C2: the third value returned is the passthrough input (None when the
\* caller passed none), on the normal path, when the merge is skipped or the
\* fragment malformed, and on the error path.
C2_PassthroughUnchanged ==
    pc = "done" => ret[3] = KwGet(kwargs.passthrough, PyNone)

\* C2 witness: the error path, with a passthrough value given.
C2_Witness ==
    /\ pc = "done"
    /\ e.exc # ""
    /\ kwargs.passthrough = PyStr(T_p)
    /\ ret[3] = PyStr(T_p)

\* Pair j has a key that is not empty once stripped.
Contributes(j) == IsStr(KeyOf(j)) /\ strip(KeyOf(j).s) # <<>>

\* The pairs the loop has been through.
Processed == 1..(IF pc = "slots" THEN i - 1 ELSE NumSlots)

\* The last pair among the processed ones whose stripped key is k.
LastWith(k) ==
    CHOOSE j \in Processed :
        /\ Contributes(j) /\ strip(KeyOf(j).s) = k
        /\ \A j2 \in Processed : (Contributes(j2) /\ strip(KeyOf(j2).s) = k) => j2 <= j

\* C3: while and after the loop runs over pairs 1..5 in order, the object
\* holds one entry per stripped non-empty key among the pairs processed so
\* far and no other; the entry's value is parse_value of the raw value of the
\* highest-numbered such pair.
C3_Assembly ==
    pc \in {"slots", "merge"} =>
        LET m == heap[json_obj.n]
        IN  /\ Keys(m) = {strip(KeyOf(j).s) : j \in {j2 \in Processed : Contributes(j2)}}
            /\ \A a, b \in 1..Len(m) : m[a].k = m[b].k => a = b
            /\ \A k \in Keys(m) :
                  Deref(heap, DictGet(m, k)) = parse_value(ValueOf(LastWith(k))).v

\* C3 witness: the loop is over and two pairs had the same stripped key,
\* written differently and with values that parse differently.
C3_Witness ==
    /\ pc = "merge"
    /\ \E j1, j2 \in Slots :
          /\ j1 < j2
          /\ Contributes(j1) /\ Contributes(j2)
          /\ KeyOf(j1) # KeyOf(j2)
          /\ strip(KeyOf(j1).s) = strip(KeyOf(j2).s)
          /\ parse_value(ValueOf(j1)).v # parse_value(ValueOf(j2)).v
          /\ Deref(heap, DictGet(heap[json_obj.n], strip(KeyOf(j1).s))) = parse_value(ValueOf(j2)).v

\* The merge fragment of the call in flight: its text, what json.loads makes
\* of it, and the entries of the object that is merged.
FragmentText == strip(MergeJsonIn.s)

Fragment == json_loads(FragmentText)

Wrapped == IF Fragment.v.t = "dict" THEN Fragment.v.m ELSE <<Entry(L_data, Fragment.v)>>

Target == strip(MergeToKeyIn.s)

\* The call in flight gives merge_json_objects a fragment to merge.
MergeCalled ==
    /\ IsStr(MergeJsonIn)
    /\ FragmentText # <<>>
    /\ Fragment.ok
    /\ IsStr(MergeToKeyIn)

\* The value under key k of the dict with entries m is a dict.
HoldsDict(m, k) == HasKey(m, k) /\ IsDict(DictGet(m, k))

C4Holds(base, v, res, tk) ==
    IF tk = <<>>
    THEN HasKey(res, L_data) /\ DictGet(res, L_data) = v
    ELSE /\ HoldsDict(res, tk)
         /\ HasKey(DictGet(res, tk).m, L_data)
         /\ DictGet(DictGet(res, tk).m, L_data) = v
         /\ ~HoldsDict(base, tk) => DictGet(res, tk) = PyDict(<<Entry(L_data, v)>>)

\* C4: once a fragment that parses to an array, a number, a string, a boolean
\* or null has been merged, the object holds the parsed value under "data": at
\* the root when the target key is empty, else inside the object under the
\* target key, which is exactly {"data": value} unless the base already held an
\* object there.
C4_WrapsNonObject ==
    (pc = "dumps" /\ MergeCalled /\ Fragment.v.t # "dict") =>
        C4Holds(heap[base_obj.n], Fragment.v, Deref(heap, json_obj).m, Target)

\* C4 witness: the fragment null was merged at the root of a base without the
\* key "data", and the object now has "data": null.
C4_Witness ==
    /\ pc = "dumps"
    /\ MergeJsonIn = PyStr(T_null)
    /\ IsStr(MergeToKeyIn) /\ Target = <<>>
    /\ ~HasKey(heap[base_obj.n], L_data)
    /\ HasKey(heap[json_obj.n], L_data)
    /\ DictGet(heap[json_obj.n], L_data) = PyNone

\* The step is the call of merge_json_objects: before it the dict is at json_obj
\* in heap, after it the dict returned is at json_obj' in heap'.
MergeTaken == pc = "merge" /\ MergeCalled /\ pc' = "dumps"

C5Holds(base, frag, res) ==
    /\ Keys(res) = Keys(base) \cup Keys(frag)
    /\ \A k \in Keys(frag) : DictGet(res, k) = DictGet(frag, k)
    /\ \A k \in Keys(base) \ Keys(frag) : DictGet(res, k) = DictGet(base, k)
    /\ frag = <<>> => res = base

\* C5: a merge with a target key that is empty once stripped returns an object
\* whose keys are those of the base and those of the fragment, with the
\* fragment's value for each key of the fragment and the base's value for each
\* other key; merging {} returns an object equal to the base.
C5_RootMerge ==
    [][(MergeTaken /\ Target = <<>>) =>
           C5Holds(Deref(heap, json_obj).m, Wrapped, Deref(heap', json_obj').m)]_vars

\* C5 witness: {"x": 9, "a": {"k": 2}} was merged at the root of a base with
\* the keys "a" and "b": "a" has the fragment's value, "b" the base's, "x" is new.
C5_Witness ==
    /\ pc = "dumps"
    /\ MergeJsonIn = PyStr(T_fragment)
    /\ IsStr(MergeToKeyIn) /\ Target = <<>>
    /\ Keys(heap[base_obj.n]) = {T_a, T_b}
    /\ Keys(heap[json_obj.n]) = {T_a, T_b, <<"x">>}
    /\ DictGet(heap[base_obj.n], T_a) = PyInt(1)
    /\ Deref(heap, DictGet(heap[json_obj.n], T_a)) = PyDict(<<Entry(<<"k">>, PyInt(2))>>)
    /\ DictGet(heap[json_obj.n], T_b) = DictGet(heap[base_obj.n], T_b)

C6Holds(base, frag, res, tk) ==
    /\ Keys(res) = Keys(base)
    /\ DictGet(res, tk).t = "dict"
    /\ Keys(DictGet(res, tk).m) = Keys(DictGet(base, tk).m) \cup Keys(frag)
    /\ \A k \in Keys(frag) : DictGet(DictGet(res, tk).m, k) = DictGet(frag, k)
    /\ \A k \in Keys(DictGet(base, tk).m) \ Keys(frag) :
          DictGet(DictGet(res, tk).m, k) = DictGet(DictGet(base, tk).m, k)
    /\ \A k \in Keys(base) \ {tk} : DictGet(res, k) = DictGet(base, k)

\* C6: a merge with a non-empty target key under which the base holds an
\* object returns an object with the top-level keys of the base and no other;
\* under the target key it has the fragment's value for each key of the
\* fragment and the base's value for each other key of the base's object; every
\* other top-level key has the value it had.
C6_NestedMerge ==
    [][(MergeTaken /\ Target # <<>> /\ HoldsDict(heap[json_obj.n], Target)) =>
           C6Holds(Deref(heap, json_obj).m, Wrapped, Deref(heap', json_obj').m, Target)]_vars

\* C6 witness: {"x": 9, "a": {"k": 2}} was merged under "b", where the base
\* held {"x": 1, "y": 2}: "x" is 9, "y" still 2, "a" is new there and the top
\* level still has "a": 1.
C6_Witness ==
    /\ pc = "dumps"
    /\ MergeJsonIn = PyStr(T_fragment)
    /\ IsStr(MergeToKeyIn) /\ Target = T_b
    /\ Keys(heap[json_obj.n]) = {T_a, T_b}
    /\ DictGet(heap[json_obj.n], T_a) = PyInt(1)
    /\ Deref(heap, DictGet(heap[json_obj.n], T_b)) =
           PyDict(<<Entry(<<"x">>, PyInt(9)), Entry(<<"y">>, PyInt(2)),
                    Entry(T_a, PyDict(<<Entry(<<"k">>, PyInt(2))>>))>>)

C7Holds(base, frag, res, tk) ==
    /\ Keys(res) = Keys(base) \cup {tk}
    /\ DictGet(res, tk) = PyDict(frag)
    /\ \A k \in Keys(base) \ {tk} : DictGet(res, k) = DictGet(base, k)

\* C7: a merge with a non-empty target key under which the base holds nothing,
\* or a value that is not an object, returns an object that has exactly the
\* wrapped fragment under the target key and, under every other key of the
\* base, the value it had.
C7_ReplaceOrCreate ==
    [][(MergeTaken /\ Target # <<>> /\ ~HoldsDict(heap[json_obj.n], Target)) =>
           C7Holds(Deref(heap, json_obj).m, Wrapped, Deref(heap', json_obj').m, Target)]_vars

\* C7 witness: [1, 2] was merged under "a", where the base held 1: the object
\* has {"data": [1, 2]} there and "b" as before.
C7_Witness ==
    /\ pc = "dumps"
    /\ MergeJsonIn = PyStr(T_list)
    /\ IsStr(MergeToKeyIn) /\ Target = T_a
    /\ Keys(heap[base_obj.n]) = {T_a, T_b}
    /\ DictGet(heap[base_obj.n], T_a) = PyInt(1)
    /\ Deref(heap, DictGet(heap[json_obj.n], T_a)) =
           PyDict(<<Entry(L_data, PyList(<<Item(PyInt(1)), Item(PyInt(2))>>))>>)
    /\ DictGet(heap[json_obj.n], T_b) = DictGet(heap[base_obj.n], T_b)

\* The call in flight without its merge fragment.
WithoutMerge == [kwargs EXCEPT !.merge_json = Absent]

\* Every key and every value of the call in flight is a str.
SlotsAreStr == \A j \in Slots : IsStr(KeyOf(j)) /\ IsStr(ValueOf(j))

C8Holds(plain) ==
    /\ ret[1] = plain[1]
    /\ ret[2] = plain[2]
    /\ SlotsAreStr => e.exc = ""

\* C8: a call whose merge fragment is a str that is empty, made of whitespace
\* only, or not JSON returns the two texts the same call returns without a
\* merge fragment, and when its keys and values are str no exception was raised
\* inside it.
C8_BadFragmentIgnored ==
    (pc = "done" /\ IsStr(MergeJsonIn) /\ (FragmentText = <<>> \/ ~Fragment.ok)) =>
        C8Holds(build_json(WithoutMerge))

\* C8 witness: a call with the fragment {broken and a base that is not empty
\* has returned the text of the base, no exception raised.
C8_Witness ==
    /\ pc = "done"
    /\ kwargs.merge_json = PyStr(T_broken)
    /\ IsStr(MergeToKeyIn) /\ Target = T_a
    /\ e.exc = ""
    /\ heap[json_obj.n] # <<>>
    /\ ret[2] = json_dumps(Deref(heap, base_obj), 2, Truthy(sort_keys))

Stripped == strip(value_str.s)

\* s has at least two characters and is wrapped in two " or in two '
IsWrapped(s) == Len(s) >= 2 /\ s[1] = s[Len(s)] /\ s[1] \in {"\"", "'"}

\* C10: parse_value of a str that, once stripped, has at least two characters
\* and begins and ends with the same quote character returns the str made of
\* the characters between the first and the last, unchanged.
C10_QuotedStaysString ==
    (pc = "parsed" /\ IsStr(value_str) /\ IsWrapped(Stripped)) =>
        parsed_value = Return(PyStr(SubSeq(Stripped, 2, Len(Stripped) - 1)))

\* C10 witness: parse_value of "42" in double quotes, whitespace around it,
\* returned the str 42.
C10_Witness ==
    /\ pc = "parsed"
    /\ IsStr(value_str)
    /\ value_str.s # Stripped
    /\ Stripped = <<"\"">> \o T_42 \o <<"\"">>
    /\ parsed_value = Return(PyStr(T_42))

\* s is true, false or null in some spelling of upper and lower case.
IsKeyword(s) == lower(s) \in {L_true, L_false, L_null}

\* Neither int() nor float() accepts s.
NotANumber(s) == ~PyIntParse(s).ok /\ ~PyFloatParse(s).ok

\* The numeric stage fails on s: int() when s has no '.', 'e' or 'E', float()
\* otherwise.
NumericStageFails(s) ==
    IF \E j \in 1..Len(s) : s[j] \in {".", "e", "E"}
    THEN ~PyFloatParse(s).ok
    ELSE ~PyIntParse(s).ok

\* parse_value was called with a str that, once stripped, is not bracketed
\* like JSON and is not true, false or null.
PlainText ==
    /\ pc = "parsed"
    /\ IsStr(value_str)
    /\ ~IsJsonLooking(Stripped)
    /\ ~IsKeyword(Stripped)

\* C11 as stated: parse_value of a str that is not bracketed like JSON, not
\* true/false/null and not a number is the str stripped.
C11_AsStated ==
    (PlainText /\ NotANumber(Stripped)) => parsed_value = Return(PyStr(Stripped))

\* C11, amended: parse_value of a str that, once stripped, is not bracketed
\* like JSON, is not true/false/null, is rejected by the numeric stage and does
\* not begin and end with the same quote character, is the str stripped.
C11_DefaultIsStripped ==
    (PlainText /\ NumericStageFails(Stripped) /\ ~IsQuoted(Stripped)) =>
        parsed_value = Return(PyStr(Stripped))

\* C11 witness: abc between a double quote and an apostrophe, whitespace around
\* it, came back stripped and with both quote characters.
C11_Witness ==
    /\ pc = "parsed"
    /\ IsStr(value_str)
    /\ value_str.s # Stripped
    /\ Stripped = <<"\"">> \o T_abc \o <<"'">>
    /\ parsed_value = Return(PyStr(Stripped))

\* C12: parse_value of a str that, once stripped, begins with { and ends with
\* }, or begins with [ and ends with ], raises nothing; it returns what
\* json.loads makes of the text when json.loads accepts it, and the stripped
\* text as a str when it does not.
C12_BracketedNeverRaises ==
    (pc = "parsed" /\ IsStr(value_str) /\ IsJsonLooking(Stripped)) =>
        /\ parsed_value.exc = ""
        /\ parsed_value.v = IF json_loads(Stripped).ok THEN json_loads(Stripped).v
                            ELSE PyStr(Stripped)

\* What the stages after the numeric one make of s: the text between the
\* quotes, or s itself.
QuotesOffOrText(s) == IF IsQuoted(s) THEN PyStr(SliceInner(s)) ELSE PyStr(s)

C13Holds(s, num, type) ==
    IF num.ok
    THEN parsed_value = Return(num.v) /\ num.v.t = type
    ELSE parsed_value = Return(QuotesOffOrText(s))

\* C13: for a str that, once stripped, is not bracketed like JSON and is not
\* true/false/null: without '.', 'e' and 'E' in it, parse_value returns the int
\* that int() makes of it, and when int() rejects it the result of the later
\* stages, float() not being tried; with one of them in it, the float that
\* float() makes of it, and when float() rejects it the result of the later
\* stages. No exception is raised.
C13_NumericStage ==
    PlainText =>
        IF \E j \in 1..Len(Stripped) : Stripped[j] \in {".", "e", "E"}
        THEN C13Holds(Stripped, PyFloatParse(Stripped), "float")
        ELSE C13Holds(Stripped, PyIntParse(Stripped), "int")

\* C13 witness: inf, which float() accepts and int() rejects, came back as
\* the str inf.
C13_Witness ==
    /\ pc = "parsed"
    /\ IsStr(value_str)
    /\ Stripped = T_inf
    /\ PyFloatParse(Stripped).ok
    /\ parsed_value = Return(PyStr(T_inf))

\* C14: parse_value of a str that, once stripped, spells true, false or null
\* in any mix of upper and lower case returns True, False or None.
C14_Keywords ==
    (pc = "parsed" /\ IsStr(value_str) /\ IsKeyword(Stripped)) =>
        parsed_value = Return(IF lower(Stripped) = L_null THEN PyNone
                              ELSE PyBool(lower(Stripped) = L_true))

\* C14 witness: tRuE with whitespace around it came back as True.
C14_Witness ==
    /\ pc = "parsed"
    /\ IsStr(value_str)
    /\ value_str.s # Stripped
    /\ Stripped = T_tRuE
    /\ parsed_value = Return(PyBool(TRUE))

\* Pair j is the last processed pair with its key, and its value is a str that
\* is empty once stripped.
StoresBlank(j) ==
    /\ Contributes(j)
    /\ LastWith(strip(KeyOf(j).s)) = j
    /\ IsStr(ValueOf(j))
    /\ strip(ValueOf(j).s) = <<>>

\* C15: parse_value of a str that is empty or made of whitespace only is the
\* empty str, and once the loop has processed a pair with a non-empty key and
\* such a value the object holds the empty str under that key.
C15_BlankIsEmptyString ==
    pc \in {"slots", "merge"} =>
        \A j \in Processed :
            StoresBlank(j) =>
                /\ parse_value(ValueOf(j)) = Return(PyStr(<<>>))
                /\ DictGet(heap[json_obj.n], strip(KeyOf(j).s)) = PyStr(<<>>)

\* C15 witness: the loop is over, a pair had the key c and a value of
\* whitespace only, and the object holds "" under c.
C15_Witness ==
    /\ pc = "merge"
    /\ \E j \in Slots :
          /\ KeyOf(j) = PyStr(T_c)
          /\ ValueOf(j) = PyStr(T_blank)
          /\ HasKey(heap[json_obj.n], T_c)
          /\ DictGet(heap[json_obj.n], T_c) = PyStr(<<>>)

\* The call in flight has returned from the try block.
Succeeded == pc = "done" /\ e.exc = ""

\* The call in flight with the other value of pretty_format.
OtherFormat == [kwargs EXCEPT !.pretty_format = PyBool(~Truthy(pretty_format))]

\* The text t has no line break in it.
OneLine(t) == \A j \in 1..Len(t) : t[j] # "\n"

\* one and two are texts of the same JSON value.
SameJson(one, two) == one.ok /\ two.ok /\ one.v = two.v

\* t begins as the text of an object that is not empty and is indented by two
\* spaces, and ends with the brace on a line of its own.
IndentedByTwo(t) ==
    /\ Len(t) >= 7
    /\ SubSeq(t, 1, 5) = <<"{", "\n", " ", " ", "\"">>
    /\ SubSeq(t, Len(t) - 1, Len(t)) = <<"\n", "}">>

\* C16: when a call has returned from the try block, its second text is
\* json.dumps of the final object with indent 2 and the sort_keys given, and is
\* the second text the same call returns with the other value of
\* pretty_format; with pretty_format true the first text is the second, with
\* pretty_format false the first text has no line break and is a text of the
\* same JSON value.
C16_FormattedAlwaysPretty ==
    Succeeded =>
        /\ ret[2] = json_dumps(Deref(heap, json_obj), 2, Truthy(sort_keys))
        /\ heap[json_obj.n] # <<>> => IndentedByTwo(ret[2])
        /\ ret[2] = build_json(OtherFormat)[2]
        /\ Truthy(pretty_format) => ret[1] = ret[2]
        /\ ~Truthy(pretty_format) =>
               OneLine(ret[1]) /\ SameJson(json_loads(ret[1]), json_loads(ret[2]))

\* C16 witness: a call with pretty_format false and an object that is not
\* empty returned two different texts, the second on several lines.
C16_Witness ==
    /\ Succeeded
    /\ kwargs.pretty_format = PyBool(FALSE)
    /\ heap[json_obj.n] # <<>>
    /\ ret[1] # ret[2]
    /\ OneLine(ret[1])
    /\ ~OneLine(ret[2])

\* The keys of the entries m, in their order.
KeySeq(m) == [j \in 1..Len(m) |-> m[j].k]

\* acc followed by the keys of ks that acc lacks, each once, in the order of ks.
RECURSIVE AppendNew(_, _)
AppendNew(acc, ks) ==
    IF ks = <<>> THEN acc
    ELSE AppendNew(IF \E j \in 1..Len(acc) : acc[j] = Head(ks) THEN acc
                   ELSE Append(acc, Head(ks)),
                   Tail(ks))

\* The stripped keys of the pairs j..5 that contribute, after acc, each at
\* the place of its first pair.
RECURSIVE SlotKeysFrom(_, _)
SlotKeysFrom(j, acc) ==
    IF j > NumSlots THEN acc
    ELSE SlotKeysFrom(j + 1, IF Contributes(j) THEN AppendNew(acc, <<strip(KeyOf(j).s)>>)
                             ELSE acc)

\* The keys of the root object in insertion order: those of the pairs in slot
\* order, then what the merge adds: the keys of the fragment that are new, in
\* the order of the fragment, or the target key when it is new.
InsertionOrder ==
    IF ~MergeCalled THEN SlotKeysFrom(1, <<>>)
    ELSE IF Target = <<>> THEN AppendNew(SlotKeysFrom(1, <<>>), KeySeq(Wrapped))
    ELSE AppendNew(SlotKeysFrom(1, <<>>), <<Target>>)

\* The merge went into the object that a pair had put under the target key.
MergedIntoNested ==
    /\ MergeCalled
    /\ Target # <<>>
    /\ \E j \in Slots : Contributes(j) /\ strip(KeyOf(j).s) = Target
    /\ parse_value(ValueOf(LastWith(Target))).v.t = "dict"

\* Every object inside v, v included, has its keys in strictly ascending order.
RECURSIVE AllSorted(_)
AllSorted(v) ==
    CASE v.t = "dict" ->
            /\ \A j \in 1..(Len(v.m) - 1) : StrLess(v.m[j].k, v.m[j + 1].k)
            /\ \A j \in 1..Len(v.m) : AllSorted(v.m[j].v)
      [] v.t = "list" -> \A j \in 1..Len(v.m) : AllSorted(v.m[j].v)
      [] OTHER -> TRUE

\* Some object inside v, below v itself, has two keys or more, and they were
\* not inserted in ascending order.
NestedOutOfOrder(v) ==
    \E j \in 1..Len(v.m) : v.m[j].v.t = "dict" /\ Len(v.m[j].v.m) > 1 /\ ~AllSorted(v.m[j].v)

\* The text t is that of a JSON object whose keys follow the order the claim
\* gives for the call in flight.
KeysInOrder(t) ==
    LET r == json_loads(t)
    IN  /\ r.ok
        /\ r.v.t = "dict"
        /\ IF Truthy(sort_keys) THEN AllSorted(r.v)
           ELSE /\ r.v = Deref(heap, json_obj)
                /\ KeySeq(r.v.m) = InsertionOrder
                /\ MergedIntoNested =>
                      KeySeq(DictGet(r.v.m, Target).m)
                          = AppendNew(KeySeq(parse_value(ValueOf(LastWith(Target))).v.m),
                                      KeySeq(Wrapped))

\* C17: in both texts a successful call returns, the keys of the root object
\* and of every object below it are in ascending order when sort_keys is
\* true; otherwise they are in insertion order: the keys of the pairs in slot
\* order, then the keys the merge adds in the order of the fragment, and the
\* same inside the object a nested merge went into.
C17_KeyOrder ==
    Succeeded => KeysInOrder(ret[1]) /\ KeysInOrder(ret[2])

\* C17 witness: sort_keys is true, a fragment was merged, and both the root
\* object and an object below it were built out of ascending order; the texts
\* have them sorted.
C17_Witness ==
    /\ Succeeded
    /\ kwargs.sort_keys = PyBool(TRUE)
    /\ MergeCalled
    /\ LET obj == Deref(heap, json_obj)
       IN  /\ \E j \in 1..(Len(obj.m) - 1) : StrLess(obj.m[j + 1].k, obj.m[j].k)
           /\ NestedOutOfOrder(obj)
    /\ AllSorted(json_loads(ret[1]).v)
    /\ AllSorted(json_loads(ret[2]).v)

\* The text {"name":"Alice","age":30,"active":true}, and the same with the
\* separators of json.dumps.
T_named_compact == <<"{", "\"", "n", "a", "m", "e", "\"", ":", "\"", "A", "l", "i", "c", "e", "\"", ",", "\"", "a", "g", "e", "\"", ":", "3", "0", ",", "\"", "a", "c", "t", "i", "v", "e", "\"", ":", "t", "r", "u", "e", "}">>

T_named_spaced == <<"{", "\"", "n", "a", "m", "e", "\"", ":", " ", "\"", "A", "l", "i", "c", "e", "\"", ",", " ", "\"", "a", "g", "e", "\"", ":", " ", "3", "0", ",", " ", "\"", "a", "c", "t", "i", "v", "e", "\"", ":", " ", "t", "r", "u", "e", "}">>

\* The call in flight has the pairs (name, Alice), (age, 30), (active, true),
\* no merge fragment, pretty_format false and sort_keys false.
IsNamedCall ==
    kwargs = Kwargs(NamedPairs, Absent, Absent, PyBool(FALSE), PyBool(FALSE), Absent)

\* C18: with the pairs (name, Alice), (age, 30), (active, true), no merge
\* fragment, pretty_format false and sort_keys false, the first text returned
\* is exactly {"name":"Alice","age":30,"active":true}, with no whitespace
\* between tokens.
C18_CompactScenario ==
    (pc = "done" /\ IsNamedCall) => ret[1] = T_named_compact

\* What the call returns instead: the same tokens in the same order, with a
\* space after every comma and colon.
C18_SpacedScenario ==
    (pc = "done" /\ IsNamedCall) => ret[1] = T_named_spaced

\* v with the entries of every object inside it in ascending order of key:
\* two values are equal as Python compares dicts when these are the same.
RECURSIVE Canon(_)
Canon(v) ==
    CASE v.t = "dict" ->
            PyDict(SortEntries([j \in 1..Len(v.m) |-> Entry(v.m[j].k, Canon(v.m[j].v))]))
      [] v.t = "list" -> PyList([j \in 1..Len(v.m) |-> Item(Canon(v.m[j].v))])
      [] OTHER -> v

\* The call in flight has no merge fragment.
NoFragment == kwargs.merge_json \in {Absent, PyStr(<<>>)}

\* The object assembled from the pairs: under each stripped key the value
\* parse_value gives for the last pair with that key.
Assembled ==
    LET ks == SlotKeysFrom(1, <<>>)
    IN  PyDict([j \in 1..Len(ks) |-> Entry(ks[j], parse_value(ValueOf(LastWith(ks[j]))).v)])

\* json.loads of the text t gives the assembled object.
ParsesToAssembled(t) ==
    LET r == json_loads(t)
    IN  r.ok /\ Canon(r.v) = Canon(Assembled) /\ Canon(r.v) = Canon(Deref(heap, json_obj))

\* C19: when a call without merge fragment has succeeded, parsing either of
\* the two texts it returned gives an object with the keys of the assembled
\* object and under each key the same typed value, whatever pretty_format and
\* sort_keys are.
C19_RoundTrip ==
    (Succeeded /\ NoFragment /\ SlotsAreStr) =>
        ParsesToAssembled(ret[1]) /\ ParsesToAssembled(ret[2])

\* C19 witness: a str value with a quote and a backslash in it, next to an
\* object, went out on one line under sort_keys, which changed the order of
\* the keys, and came back as it was.
C19_Witness ==
    /\ Succeeded
    /\ NoFragment
    /\ kwargs.pretty_format = PyBool(FALSE)
    /\ kwargs.sort_keys = PyBool(TRUE)
    /\ ValueOf(1) = PyStr(T_escapes)
    /\ DictGet(Assembled.m, T_b) = PyStr(T_escapes)
    /\ json_loads(ret[1]).v # Assembled
    /\ ParsesToAssembled(ret[1])
    /\ ParsesToAssembled(ret[2])

\* The call of the activation a is over.
Over(a) == a.pc = "done"

\* C20: with two activations of build_json under way, switched at any point
\* and called again and again, every activation that is over has returned
\* exactly what build_json returns for its own keyword arguments when it runs
\* alone, whatever the other one was given and wherever it stands.
C20_Independent ==
    /\ Over(Activation) => ret = build_json(kwargs)
    /\ Over(suspended) => suspended.ret = build_json(suspended.kwargs)

\* C20 witness: both activations are over, one after a merge into a nested
\* object and the other after an exception, with different texts returned.
C20_Witness ==
    /\ Over(Activation)
    /\ Over(suspended)
    /\ e.exc = ""
    /\ base_obj # Unbound
    /\ kwargs.merge_to_key = PyStr(T_b_padded)
    /\ suspended.e.exc # ""
    /\ ret[1] # suspended.ret[1]
    /\ ret = build_json(kwargs)

\* A successful call merged a fragment that parses to a value that is not an
\* object.
NonObjectFragment == Succeeded /\ SlotsAreStr /\ MergeCalled /\ Fragment.v.t # "dict"

\* The key the merge of {"data": value} touches at the top level.
TouchedKey == IF Target = <<>> THEN L_data ELSE Target

\* The object in the text t is the assembled one with {"data": value} merged:
\* "data" at the root or inside the object under the target key, every other
\* top-level key as assembled.
HasWrappedMerged(t) ==
    LET out == json_loads(t).v.m
    IN  /\ json_loads(t).ok
        /\ Keys(out) = Keys(Assembled.m) \cup {TouchedKey}
        /\ C4Holds(Assembled.m, Fragment.v, out, Target)
        /\ \A k \in Keys(Assembled.m) \ {TouchedKey} : DictGet(out, k) = DictGet(Assembled.m, k)

\* C21 as stated: when the fragment parses to a value that is not an object,
\* the merge is skipped and the object in both texts equals the object
\* assembled from the pairs.
C21_NonObjectSkipped ==
    NonObjectFragment =>
        /\ Canon(json_loads(ret[1]).v) = Canon(Assembled)
        /\ Canon(json_loads(ret[2]).v) = Canon(Assembled)

\* C21, amended: when the fragment parses to a value that is not an object, it
\* is merged as {"data": value}: the object in both texts is the assembled one
\* with "data" set to the value at the root, or inside the object under the
\* target key, and with every other top-level key as assembled.
C21_NonObjectMerged ==
    NonObjectFragment => HasWrappedMerged(ret[1]) /\ HasWrappedMerged(ret[2])

\* C21 witness: the fragment [1, 2] met an assembled object with two keys,
\* none of them "data", and an empty target key: both texts have the two keys
\* and "data": [1, 2].
C21_Witness ==
    /\ NonObjectFragment
    /\ MergeJsonIn = PyStr(T_list)
    /\ Target = <<>>
    /\ Len(Assembled.m) = 2
    /\ ~HasKey(Assembled.m, L_data)
    /\ DictGet(json_loads(ret[1]).v.m, L_data) = PyList(<<Item(PyInt(1)), Item(PyInt(2))>>)
    /\ Len(json_loads(ret[2]).v.m) = 3

\* The keys both a pair and the fragment of a root-level merge define.
DefinedTwice ==
    IF MergeCalled /\ Target = <<>> THEN Keys(Assembled.m) \cap Keys(Wrapped) ELSE {}

\* The object in the text t has the fragment's value under every such key.
FragmentWins(t) ==
    \A k \in DefinedTwice : DictGet(json_loads(t).v.m, k) = DictGet(Wrapped, k)

\* The steps of one call follow each other in the fixed order: the loop goes
\* through pairs 1 to 5 one after the other, the merge comes when the loop is
\* over, nothing but the serialization follows the merge, and the object it
\* serializes is the one the merge left.
StepsInOrder ==
    /\ pc = "slots" =>
          \/ pc' = "slots" /\ i' = i + 1 /\ i < NumSlots
          \/ pc' = "merge" /\ i = NumSlots
          \/ pc' \in {"except", "escaped"}
    /\ pc = "merge" => pc' \in {"dumps", "except", "escaped"}
    /\ pc = "dumps" =>
          /\ pc' = "done"
          /\ heap' = heap /\ json_obj' = json_obj
          /\ ret'[2] = json_dumps(Deref(heap, json_obj), 2, Truthy(sort_keys))
    /\ pc' = "slots" => pc \in {"try", "slots"}

\* C25: build_json assembles the five pairs, then merges, then serializes:
\* no pair is applied once the merge has run, and when a pair and a fragment
\* merged at the root define the same key, both texts returned carry the
\* fragment's value for it.
C25_FixedOrder ==
    /\ [](Succeeded /\ SlotsAreStr => FragmentWins(ret[1]) /\ FragmentWins(ret[2]))
    /\ [][StepsInOrder]_vars

\* C25 witness: pair 1 gave "a" the value 1, the fragment merged at the root
\* gives it {"k": 2}, and both texts have {"k": 2} under "a".
C25_Witness ==
    /\ Succeeded
    /\ MergeJsonIn = PyStr(T_fragment)
    /\ IsStr(MergeToKeyIn) /\ Target = <<>>
    /\ T_a \in DefinedTwice
    /\ DictGet(Assembled.m, T_a) = PyInt(1)
    /\ DictGet(json_loads(ret[1]).v.m, T_a) = PyDict(<<Entry(<<"k">>, PyInt(2))>>)
    /\ DictGet(json_loads(ret[2]).v.m, T_a) = PyDict(<<Entry(<<"k">>, PyInt(2))>>)

(***************************************************************************)
(* Calls of methods on their own                                           *)
(***************************************************************************)

\* The variables of build_json, which no other method touches.
builder == <<pc, kwargs, locals, i, json_obj, base_obj, heap, e, ret, parse, suspended>>

\* build_json is not being called.
BuilderIdle ==
    /\ pc = "idle"
    /\ kwargs = NoCall
    /\ pretty_format = Unbound
    /\ sort_keys = Unbound
    /\ merge_json = Unbound
    /\ merge_to_key = Unbound
    /\ passthrough = Unbound
    /\ i = 0
    /\ json_obj = Unbound
    /\ base_obj = Unbound
    /\ heap = <<>>
    /\ e = NoException
    /\ ret = <<>>
    /\ value_str = Unbound
    /\ parsed_value = Unbound
    /\ suspended = NoActivation

(***************************************************************************)
(* JsonBuilderNode.merge_json_objects, applied to its own result           *)
(***************************************************************************)

\* {}, {"a": 1, "b": {"x": 1, "y": 2}}, {"data": [1], "b": "q"}, {"a": {"a": 1}}
BaseObjects ==
    {PyDict(<<>>),
     PyDict(<<Entry(T_a, PyInt(1)),
              Entry(T_b, PyDict(<<Entry(<<"x">>, PyInt(1)), Entry(<<"y">>, PyInt(2))>>))>>),
     PyDict(<<Entry(L_data, PyList(<<Item(PyInt(1))>>)), Entry(T_b, PyStr(<<"q">>))>>),
     PyDict(<<Entry(T_a, PyDict(<<Entry(T_a, PyInt(1))>>))>>)}

\* {}, {"x": 9, "a": {"k": 2}}, {"data": null}, {"b": 1}, {"a": {"a": 1}}, and
\* the list [1, 2], which is no object.
MergeObjects ==
    {PyDict(<<>>),
     PyDict(<<Entry(<<"x">>, PyInt(9)), Entry(T_a, PyDict(<<Entry(<<"k">>, PyInt(2))>>))>>),
     PyDict(<<Entry(L_data, PyNone)>>),
     PyDict(<<Entry(T_b, PyInt(1))>>),
     PyDict(<<Entry(T_a, PyDict(<<Entry(T_a, PyInt(1))>>))>>),
     PyList(<<Item(PyInt(1)), Item(PyInt(2))>>)}

TargetKeys == {PyStr(s) : s \in {T_empty, T_space, T_a, T_b_padded, T_c, L_data}}

\* The call merge_json_objects(base_obj, merge_obj, target_key): b is the
\* base in its heap, m the value given as merge_obj, t the target key.
MergeCall(b, m, t) ==
    LET c == Box(b.h, m)
    IN  [pc |-> "call", heap |-> c.h, base_obj |-> b.v, merge_obj |-> c.v,
         target_key |-> t, result |-> Unbound, again |-> Unbound]

MergeInit ==
    /\ BuilderIdle
    /\ merging \in {MergeCall(Box(<<>>, b), m, t)
                    : b \in BaseObjects, m \in MergeObjects, t \in TargetKeys}
    /\ make_request = NotCalled
    /\ remove_empty_lines = NotCalled
    /\ process_multiline_prompt = NotCalled
    /\ download_audio = NotCalled
    /\ files = {}

\* result = self.merge_json_objects(base_obj, merge_obj, target_key)
MergeOnce ==
    /\ merging.pc = "call"
    /\ LET r == merge_json_objects(merging.heap, merging.base_obj, merging.merge_obj,
                                   merging.target_key)
       IN  merging' = [merging EXCEPT !.pc = "once", !.heap = r.h, !.result = r.v]
    /\ UNCHANGED <<builder, make_request, remove_empty_lines, process_multiline_prompt,
                   download_audio, files>>

\* again = self.merge_json_objects(result, merge_obj, target_key)
MergeAgain ==
    /\ merging.pc = "once"
    /\ LET r == merge_json_objects(merging.heap, merging.result, merging.merge_obj,
                                   merging.target_key)
       IN  merging' = [merging EXCEPT !.pc = "twice", !.heap = r.h, !.again = r.v]
    /\ UNCHANGED <<builder, make_request, remove_empty_lines, process_multiline_prompt,
                   download_audio, files>>

MergeNext == MergeOnce \/ MergeAgain

SpecMerge == MergeInit /\ [][MergeNext]_vars

\* C26: merge_json_objects applied to its own result with the same fragment
\* and target key returns an object equal to that result as it was, and
\* leaves that result equal to what it was.
C26_MergeIdempotent ==
    [][(merging.pc = "once" /\ merging'.pc = "twice") =>
           /\ Deref(merging'.heap, merging'.again) = Deref(merging.heap, merging.result)
           /\ Deref(merging'.heap, merging'.result) = Deref(merging.heap, merging.result)
           /\ merging'.again # merging'.result]_vars

\* C26 witness: {"x": 9, "a": {"k": 2}} was merged twice under "c", a key the
\* base lacks; the first call stored the fragment itself there, the second
\* updated it with itself, and both results are the base with the fragment
\* under "c".
C26_Witness ==
    /\ merging.pc = "twice"
    /\ merging.target_key = PyStr(T_c)
    /\ Deref(merging.heap, merging.base_obj) =
           PyDict(<<Entry(T_a, PyDict(<<Entry(T_a, PyInt(1))>>))>>)
    /\ Deref(merging.heap, merging.again) =
           PyDict(<<Entry(T_a, PyDict(<<Entry(T_a, PyInt(1))>>)),
                    Entry(T_c, PyDict(<<Entry(<<"x">>, PyInt(9)),
                                        Entry(T_a, PyDict(<<Entry(<<"k">>, PyInt(2))>>))>>))>>)
    /\ Deref(merging.heap, merging.again) = Deref(merging.heap, merging.result)
    /\ DictGet(merging.heap[merging.again.n], T_c) = merging.merge_obj

\* The target key of the call, stripped.
MergingTarget == TargetKey(merging.target_key)

\* The call is given an object to merge under a key where base_obj holds an
\* object.
MergesIntoNested ==
    /\ merging.pc = "call"
    /\ IsDict(merging.merge_obj)
    /\ MergingTarget # <<>>
    /\ HoldsDict(merging.heap[merging.base_obj.n], MergingTarget)

\* C27: when merge_json_objects merges under a non-empty target key where
\* base_obj holds an object, that object is one and the same in base_obj and
\* in the result and is updated in place: after the call it has every key of
\* the fragment with the fragment's value, base_obj[target] equals
\* result[target], and base_obj has the top-level keys it had.
C27_NestedSharedInPlace ==
    [][(MergesIntoNested /\ merging'.pc = "once") =>
           LET base == merging'.heap[merging.base_obj.n]
               res == merging'.heap[merging'.result.n]
               frag == merging.heap[merging.merge_obj.n]
           IN  /\ merging'.result # merging.base_obj
               /\ DictGet(base, MergingTarget) = DictGet(res, MergingTarget)
               /\ DictGet(base, MergingTarget) =
                      DictGet(merging.heap[merging.base_obj.n], MergingTarget)
               /\ Keys(frag) \subseteq Keys(merging'.heap[DictGet(base, MergingTarget).n])
               /\ \A k \in Keys(frag) :
                     DictGet(merging'.heap[DictGet(base, MergingTarget).n], k) = DictGet(frag, k)
               /\ Deref(merging'.heap, DictGet(base, MergingTarget))
                      = Deref(merging'.heap, DictGet(res, MergingTarget))
               /\ KeySeq(base) = KeySeq(merging.heap[merging.base_obj.n])]_vars

\* C27 witness: {"x": 9, "a": {"k": 2}} was merged under " b " into a base
\* holding {"x": 1, "y": 2} under "b": base_obj["b"] now has x, y and a, with
\* 9 under x, and base_obj still has the keys a and b.
C27_Witness ==
    /\ merging.pc = "once"
    /\ merging.target_key = PyStr(T_b_padded)
    /\ KeySeq(merging.heap[merging.base_obj.n]) = <<T_a, T_b>>
    /\ merging.result # merging.base_obj
    /\ Deref(merging.heap, DictGet(merging.heap[merging.base_obj.n], T_b)) =
           PyDict(<<Entry(<<"x">>, PyInt(9)), Entry(<<"y">>, PyInt(2)),
                    Entry(T_a, PyDict(<<Entry(<<"k">>, PyInt(2))>>))>>)

\* The keys the merge of the call in flight writes at the top level.
MergeTouched ==
    IF ~MergeCalled THEN {}
    ELSE IF Target = <<>> THEN Keys(Wrapped)
    ELSE {Target}

\* The stripped keys that two pairs or more have.
RepeatedKeys ==
    {k \in Keys(Assembled.m) :
        \E j1, j2 \in Slots :
            /\ j1 < j2
            /\ Contributes(j1) /\ strip(KeyOf(j1).s) = k
            /\ Contributes(j2) /\ strip(KeyOf(j2).s) = k}

\* The first pair with the stripped key k.
FirstWith(k) ==
    CHOOSE j \in Slots :
        /\ Contributes(j) /\ strip(KeyOf(j).s) = k
        /\ \A j2 \in Slots : (Contributes(j2) /\ strip(KeyOf(j2).s) = k) => j <= j2

\* The place of k among the keys: one more than the number of distinct
\* stripped keys of the pairs before the first pair with k.
PlaceOf(k) ==
    1 + Cardinality({strip(KeyOf(j).s) : j \in {j2 \in Slots : j2 < FirstWith(k) /\ Contributes(j2)}})

\* The text t is that of an object which has k once, at the place of the
\* first pair with k, with the value of the last; t is json.dumps of the
\* object json.loads reads in it, so no key is written twice in t.
OnceAtFirstPlace(t, k, indent) ==
    LET out == json_loads(t).v
    IN  /\ json_loads(t).ok
        /\ Cardinality({n \in 1..Len(out.m) : out.m[n].k = k}) = 1
        /\ out.m[PlaceOf(k)].k = k
        /\ DictGet(out.m, k) = parse_value(ValueOf(LastWith(k))).v
        /\ json_dumps(out, indent, FALSE) = t

HasSubstring(s, sub) ==
    \E p \in 1..(Len(s) - Len(sub) + 1) : SubSeq(s, p, p + Len(sub) - 1) = sub

L_Content_Type == <<"C", "o", "n", "t", "e", "n", "t", "-", "T", "y", "p", "e">>

L_application_json == <<"a", "p", "p", "l", "i", "c", "a", "t", "i", "o", "n", "/", "j", "s", "o", "n">>

L_http == <<"h", "t", "t", "p", ":", "/", "/">>

L_https == <<"h", "t", "t", "p", "s", ":", "/", "/">>

L_json == <<"j", "s", "o", "n">>

L_form == <<"f", "o", "r", "m">>

L_GET == <<"G", "E", "T">>

L_POST == <<"P", "O", "S", "T">>

L_PUT == <<"P", "U", "T">>

L_DELETE == <<"D", "E", "L", "E", "T", "E">>

L_PATCH == <<"P", "A", "T", "C", "H">>

\* s.startswith(prefix), for two str
HasPrefix(s, prefix) == Len(s) >= Len(prefix) /\ SubSeq(s, 1, Len(prefix)) = prefix

\* _validate_url(url)
validate_url(url) ==
    /\ HasPrefix(url.s, L_http) \/ HasPrefix(url.s, L_https)
    /\ Len(url.s) > 8

\* What _parse_json_safely makes of json.loads' outcome: the except clause
\* names json.JSONDecodeError and AttributeError, nothing else.
LoadedOrDefault(parsed) ==
    IF parsed.ok THEN Return(parsed.v)
    ELSE IF parsed.digits > 0 THEN DigitLimitError(parsed.digits)
    ELSE Return(PyDict(<<>>))

\* _parse_json_safely(json_string), default being {}
parse_json_safely(json_string) ==
    IF ~IsStr(json_string) THEN Return(PyDict(<<>>))
    ELSE IF strip(json_string.s) = <<>> THEN Return(PyDict(<<>>))
    ELSE LoadedOrDefault(json_loads(strip(json_string.s)))

\* "Content-Type" not in header_dict, for what json.loads can return;
\* exc = TypeError for a value that is no container.
NotIn(header_dict) ==
    CASE header_dict.t = "dict" -> Return(PyBool(~HasKey(header_dict.m, L_Content_Type)))
      [] header_dict.t = "list" ->
            Return(PyBool(\A n \in 1..Len(header_dict.m) :
                              header_dict.m[n].v # PyStr(L_Content_Type)))
      [] header_dict.t = "str" -> Return(PyBool(~HasSubstring(header_dict.s, L_Content_Type)))
      [] OTHER ->
            Raise("TypeError", <<"a", "r", "g", "u", "m", "e", "n", "t", " ", "o", "f", " ", "t", "y", "p", "e", " ", "'">> \o TypeName(header_dict) \o <<"'", " ", "i", "s", " ", "n", "o", "t", " ", "i", "t", "e", "r", "a", "b", "l", "e">>)

\* header_dict["Content-Type"] = "application/json"
SetItem(header_dict) ==
    CASE header_dict.t = "dict" ->
            Return(PyDict(DictSet(header_dict.m, L_Content_Type, PyStr(L_application_json))))
      [] header_dict.t = "list" -> Raise("TypeError", <<"l", "i", "s", "t", " ", "i", "n", "d", "i", "c", "e", "s", " ", "m", "u", "s", "t", " ", "b", "e", " ", "i", "n", "t", "e", "g", "e", "r", "s", " ", "o", "r", " ", "s", "l", "i", "c", "e", "s", ",", " ", "n", "o", "t", " ", "s", "t", "r">>)
      [] OTHER -> Raise("TypeError", <<"'", "s", "t", "r", "'", " ", "o", "b", "j", "e", "c", "t", " ", "d", "o", "e", "s", " ", "n", "o", "t", " ", "s", "u", "p", "p", "o", "r", "t", " ", "i", "t", "e", "m", " ", "a", "s", "s", "i", "g", "n", "m", "e", "n", "t">>)

\* Lines 124-125, absent being the outcome of the test "Content-Type" not in
\* header_dict.
DefaultContentType(data_format, header_dict, absent) ==
    IF data_format.s # L_json THEN Return(header_dict)
    ELSE IF absent.exc # "" THEN absent
    ELSE IF absent.v = PyBool(TRUE) THEN SetItem(header_dict)
    ELSE Return(header_dict)


L_Error == <<"E", "r", "r", "o", "r", ":", " ">>

T_url == <<"h", "t", "t", "p", "s", ":", "/", "/", "a", ".", "i", "o", "/", "x">>

T_url_short == <<"h", "t", "t", "p", "s", ":", "/", "/">>

T_url_ftp == <<"f", "t", "p", ":", "/", "/", "a", ".", "i", "o", "/", "x">>

T_query == <<"{", "\"", "q", "\"", ":", " ", "1", "}">>

T_text_plain == <<"{", "\"", "C", "o", "n", "t", "e", "n", "t", "-", "T", "y", "p", "e", "\"", ":", " ", "\"", "t", "e", "x", "t", "/", "p", "l", "a", "i", "n", "\"", "}">>

T_one_item == <<"[", "1", "]">>

T_content_type_item == <<"[", "\"", "C", "o", "n", "t", "e", "n", "t", "-", "T", "y", "p", "e", "\"", "]">>

T_five == <<"5">>

T_abc_quoted == <<"\"", "a", "b", "c", "\"">>

T_plain == <<"p", "l", "a", "i", "n">>

T_gone == <<"g", "o", "n", "e">>

T_refused == <<"r", "e", "f", "u", "s", "e", "d">>

Urls == {T_url, T_url_short, T_url_ftp}

Methods == {L_GET, L_POST, L_PUT, L_DELETE, L_PATCH}

Formats == {L_json, L_form}

ParamTexts == {T_empty_object, T_query, T_one_item, T_broken}

\* Headers: objects, arrays, a number, a string, a text that is no JSON, and
\* an array with an integer of more digits than int() takes.
HeaderTexts ==
    {T_empty_object, T_text_plain, T_one_item, T_content_type_item, T_five, T_abc_quoted,
     T_broken, T_long_array}

RequestTimeout == 10

\* The call make_request(api_url, request_method, data_format, request_params,
\* headers, timeout, anything).
Request(api_url, request_method, data_format, request_params, headers, anything) ==
    [pc |-> "called",
     api_url |-> PyStr(api_url), request_method |-> PyStr(request_method),
     data_format |-> PyStr(data_format), request_params |-> PyStr(request_params),
     headers |-> PyStr(headers), timeout |-> PyInt(RequestTimeout), anything |-> anything,
     params |-> Unbound, header_dict |-> Unbound, response |-> Unbound,
     e |-> NoException, failed |-> FALSE, ret |-> <<>>]

RequestInit ==
    /\ BuilderIdle
    /\ merging = NotCalled
    /\ make_request \in {Request(u, m, f, p, h, a)
                         : u \in Urls, m \in Methods, f \in Formats, p \in ParamTexts,
                           h \in HeaderTexts, a \in {PyNone, PyStr(T_p)}}
    /\ remove_empty_lines = NotCalled
    /\ process_multiline_prompt = NotCalled
    /\ download_audio = NotCalled
    /\ files = {}

RequestFrame == <<builder, merging, remove_empty_lines, process_multiline_prompt,
                  download_audio, files>>

\* return (text, anything)
Returns(text, failed) ==
    make_request' = [make_request EXCEPT !.pc = "done", !.failed = failed,
                                         !.ret = <<text, make_request.anything>>]

\* An exception raised outside the try block leaves make_request.
Escapes(r) ==
    make_request' = [make_request EXCEPT !.pc = "raised", !.e = [exc |-> r.exc, msg |-> r.msg]]

\* Lines 116-117
ValidateUrl ==
    /\ make_request.pc = "called"
    /\ IF validate_url(make_request.api_url)
       THEN make_request' = [make_request EXCEPT !.pc = "parse"]
       ELSE Returns(L_Error \o <<"U+65E0", "U+6548", "U+7684", "U", "R", "L", "U+683C", "U+5F0F">>, TRUE)
    /\ UNCHANGED RequestFrame

\* The two calls of lines 120-121, with outcomes p and h.
Parsed2(p, h) ==
    IF p.exc # "" THEN Escapes(p)
    ELSE IF h.exc # "" THEN Escapes(h)
    ELSE make_request' = [make_request EXCEPT !.pc = "content_type",
                                              !.params = p.v, !.header_dict = h.v]

\* Lines 120-121
ParseInputs ==
    /\ make_request.pc = "parse"
    /\ Parsed2(parse_json_safely(make_request.request_params),
               parse_json_safely(make_request.headers))
    /\ UNCHANGED RequestFrame

\* Lines 124-125, with outcome r.
ContentTypeSet(r) ==
    IF r.exc # "" THEN Escapes(r)
    ELSE make_request' = [make_request EXCEPT !.pc = "send", !.header_dict = r.v]

SetContentType ==
    /\ make_request.pc = "content_type"
    /\ ContentTypeSet(DefaultContentType(make_request.data_format, make_request.header_dict,
                                         NotIn(make_request.header_dict)))
    /\ UNCHANGED RequestFrame

\* What requests.get/post/put/delete can do: return a response, or raise.
\* Headers that are neither a dict nor None are rejected before anything is
\* sent.
HttpOutcomes(header_dict) ==
    IF header_dict.t \notin {"dict", "None"}
    THEN {[kind |-> "Exception", status |-> 0, text |-> T_refused]}
    ELSE {[kind |-> "response", status |-> 200, text |-> T_object],
          [kind |-> "response", status |-> 200, text |-> T_plain],
          [kind |-> "response", status |-> 404, text |-> T_gone],
          [kind |-> "Timeout", status |-> 0, text |-> <<>>],
          [kind |-> "ConnectionError", status |-> 0, text |-> <<>>],
          [kind |-> "RequestException", status |-> 0, text |-> T_refused],
          [kind |-> "Exception", status |-> 0, text |-> T_refused]}

\* The call of requests has the outcome o.
Sent(o) ==
    IF o.kind = "response"
    THEN make_request' = [make_request EXCEPT !.pc = "respond", !.response = o]
    ELSE make_request' = [make_request EXCEPT !.pc = "except", !.response = o]

\* Lines 129-173
Send ==
    /\ make_request.pc = "send"
    /\ IF make_request.request_method.s \in {L_GET, L_POST, L_PUT, L_DELETE}
       THEN \E o \in HttpOutcomes(make_request.header_dict) : Sent(o)
       ELSE Returns(L_Error \o <<"U+4E0D", "U+652F", "U+6301", "U+7684", "U+8BF7", "U+6C42", "U+65B9", "U+6CD5", " ">> \o make_request.request_method.s, TRUE)
    /\ UNCHANGED RequestFrame

\* Lines 179-183, body being what json.loads makes of response.text.
ReturnsBody(body) ==
    IF body.ok THEN Returns(json_dumps(body.v, 2, FALSE), FALSE)
    ELSE Returns(make_request.response.text, FALSE)

\* Lines 176-183
Respond ==
    /\ make_request.pc = "respond"
    /\ IF make_request.response.status >= 400
       THEN make_request' = [make_request EXCEPT !.pc = "except",
                                                 !.response.kind = "HTTPError"]
       ELSE ReturnsBody(json_loads(make_request.response.text))
    /\ UNCHANGED RequestFrame

\* The text the except clause for the exception o returns.
ErrorText(o) ==
    CASE o.kind = "Timeout" ->
            L_Error \o <<"U+8BF7", "U+6C42", "U+8D85", "U+65F6", "U+FF08">> \o IntToStr(make_request.timeout.n) \o <<"U+79D2", "U+FF09">>
      [] o.kind = "ConnectionError" -> L_Error \o <<"U+8FDE", "U+63A5", "U+5931", "U+8D25", "U+FF0C", "U+8BF7", "U+68C0", "U+67E5", "U+7F51", "U+7EDC", "U+6216", "U", "R", "L">>
      [] o.kind = "HTTPError" ->
            L_Error \o <<"H", "T", "T", "P", "U+9519", "U+8BEF", " ">> \o IntToStr(o.status) \o <<" ", "-", " ">> \o o.text
      [] o.kind = "RequestException" -> L_Error \o <<"U+8BF7", "U+6C42", "U+5F02", "U+5E38", " ", "-", " ">> \o o.text
      [] OTHER -> L_Error \o <<"U+672A", "U+77E5", "U+9519", "U+8BEF", " ", "-", " ">> \o o.text

\* Lines 185-194
Handle ==
    /\ make_request.pc = "except"
    /\ Returns(ErrorText(make_request.response), TRUE)
    /\ UNCHANGED RequestFrame

RequestNext == ValidateUrl \/ ParseInputs \/ SetContentType \/ Send \/ Respond \/ Handle

SpecRequest == RequestInit /\ [][RequestNext]_vars

\* C22: make_request never raises: a call that is over has returned two
\* values, the second being the anything input; every failure is reported by
\* a first value that begins with "Error: ".
C22_RequestNeverRaises ==
    /\ make_request.pc # "raised"
    /\ make_request.pc = "done" =>
          /\ Len(make_request.ret) = 2
          /\ make_request.ret[2] = make_request.anything
          /\ make_request.failed => HasPrefix(make_request.ret[1], L_Error)

\* What holds of make_request: every call that returns does so as C22 says,
\* and an exception leaves it only from lines 120-125, before the try block.
C22_RaisesBeforeTryOnly ==
    /\ make_request.pc = "done" =>
          /\ Len(make_request.ret) = 2
          /\ make_request.ret[2] = make_request.anything
          /\ make_request.failed => HasPrefix(make_request.ret[1], L_Error)
    /\ make_request.pc = "raised" =>
          /\ make_request.response = Unbound
          /\ make_request.e.exc \in {"TypeError", "ValueError"}

\* ---------------------------------------------------------------------
\* RemoveEmptyLinesNode.remove_empty_lines
\* ---------------------------------------------------------------------

L_strict == <<"s", "t", "r", "i", "c", "t">>

L_loose == <<"l", "o", "o", "s", "e">>

L_trim_only == <<"t", "r", "i", "m", "_", "o", "n", "l", "y">>

\* The place of the first c in s, 0 when there is none
RECURSIVE FirstAt(_, _, _)
FirstAt(s, c, from) ==
    IF from > Len(s) THEN 0
    ELSE IF s[from] = c THEN from
    ELSE FirstAt(s, c, from + 1)

\* s.split(c) for a separator of one character
RECURSIVE split(_, _)
split(s, c) ==
    LET k == FirstAt(s, c, 1)
    IN  IF k = 0 THEN <<s>>
        ELSE <<SubSeq(s, 1, k - 1)>> \o split(SubSeq(s, k + 1, Len(s)), c)

\* sep.join(parts)
RECURSIVE join(_, _)
join(sep, parts) ==
    IF parts = <<>> THEN <<>>
    ELSE IF Len(parts) = 1 THEN parts[1]
    ELSE parts[1] \o sep \o join(sep, Tail(parts))

\* Lines 114-117
ProcessedLine(f, line) == IF f.trim_lines THEN strip(line) ELSE line

\* Lines 120-129
IsEmpty(f, line) ==
    CASE f.mode = L_strict -> ProcessedLine(f, line) = <<>> /\ line = <<>>
      [] f.mode = L_loose -> ProcessedLine(f, line) = <<>>
      [] OTHER -> FALSE

\* A variant that counts a preserved empty line as removed.
EmptyLineCountsPreserved(f) ==
    IF f.preserve_single_empty /\ f.consecutive_empty + 1 = 1
    THEN [f EXCEPT !.consecutive_empty = @ + 1, !.removed_count = @ + 1,
                   !.processed_lines = Append(@, <<>>)]
    ELSE [f EXCEPT !.consecutive_empty = @ + 1, !.removed_count = @ + 1]

\* Lines 132-138: the frame after an empty line
EmptyLine(f) ==
    IF f.preserve_single_empty /\ f.consecutive_empty + 1 = 1
    THEN [f EXCEPT !.consecutive_empty = @ + 1,
                   !.processed_lines = Append(@, <<>>)]
    ELSE [f EXCEPT !.consecutive_empty = @ + 1, !.removed_count = @ + 1]

\* Lines 141-145: the frame after a line that is not empty
KeptLine(f, line) ==
    [f EXCEPT !.empty_line_groups = IF f.consecutive_empty > 0 THEN @ + 1 ELSE @,
              !.consecutive_empty = 0,
              !.processed_lines = Append(@, ProcessedLine(f, line))]

YesNo(b) == IF b THEN <<"U+662F">> ELSE <<"U+5426">>

\* Lines 156-163
Statistics(f, final_line_count, empty_line_groups) ==
    <<"U+5904", "U+7406", "U+7EDF", "U+8BA1", "U+FF1A", "\n", "U+539F", "U+59CB", "U+884C", "U+6570", ":", " ">> \o IntToStr(f.original_line_count)
    \o <<"\n", "U+5904", "U+7406", "U+540E", "U+884C", "U+6570", ":", " ">> \o IntToStr(final_line_count)
    \o <<"\n", "U+79FB", "U+9664", "U+884C", "U+6570", ":", " ">> \o IntToStr(f.removed_count)
    \o <<"\n", "U+7A7A", "U+884C", "U+7EC4", "U+6570", ":", " ">> \o IntToStr(empty_line_groups)
    \o <<"\n", "U+5904", "U+7406", "U+6A21", "U+5F0F", ":", " ">> \o f.mode
    \o <<"\n", "U+4FDD", "U+7559", "U+5355", "U+7A7A", "U+884C", ":", " ">> \o YesNo(f.preserve_single_empty)
    \o <<"\n", "U+4FEE", "U+526A", "U+7A7A", "U+767D", ":", " ">> \o YesNo(f.trim_lines)

MaxTextLen == 5

TextChars == {"a", " ", "\n"}

RECURSIVE TextsOf(_)
TextsOf(n) ==
    IF n = 0 THEN {<<>>}
    ELSE LET shorter == TextsOf(n - 1)
         IN  shorter \cup {Append(s, c) : s \in {x \in shorter : Len(x) = n - 1}, c \in TextChars}

Modes == {L_strict, L_loose, L_trim_only}

\* The call remove_empty_lines(text, mode, preserve_single_empty, trim_lines)
LinesCall(text, mode, preserve_single_empty, trim_lines) ==
    [pc |-> "called", text |-> text, mode |-> mode,
     preserve_single_empty |-> preserve_single_empty, trim_lines |-> trim_lines,
     lines |-> <<>>, original_line_count |-> 0, processed_lines |-> <<>>,
     removed_count |-> 0, empty_line_groups |-> 0, consecutive_empty |-> 0, i |-> 0,
     final_line_count |-> 0, ret |-> <<>>]

LinesInit ==
    /\ BuilderIdle
    /\ merging = NotCalled
    /\ make_request = NotCalled
    /\ remove_empty_lines \in {LinesCall(s, m, p, tr)
                               : s \in TextsOf(MaxTextLen), m \in Modes,
                                 p \in BOOLEAN, tr \in BOOLEAN}
    /\ process_multiline_prompt = NotCalled
    /\ download_audio = NotCalled
    /\ files = {}

LinesFrame == <<builder, merging, make_request, process_multiline_prompt, download_audio, files>>

\* Lines 101-110
SplitText ==
    /\ remove_empty_lines.pc = "called"
    /\ IF remove_empty_lines.text = <<>>
       THEN remove_empty_lines' =
                [remove_empty_lines EXCEPT !.pc = "done", !.ret = <<<<>>, <<"U+8F93", "U+5165", "U+6587", "U+672C", "U+4E3A", "U+7A7A">>, 0>>]
       ELSE remove_empty_lines' =
                [remove_empty_lines EXCEPT
                    !.pc = "loop",
                    !.lines = split(remove_empty_lines.text, "\n"),
                    !.original_line_count = Len(split(remove_empty_lines.text, "\n"))]
    /\ UNCHANGED LinesFrame

\* Lines 112-145: one turn of the loop
LineStep ==
    /\ remove_empty_lines.pc = "loop"
    /\ remove_empty_lines.i < Len(remove_empty_lines.lines)
    /\ LET f == [remove_empty_lines EXCEPT !.i = @ + 1]
           line == f.lines[f.i]
       IN  remove_empty_lines' = IF IsEmpty(f, line) THEN EmptyLine(f) ELSE KeptLine(f, line)
    /\ UNCHANGED LinesFrame

\* Lines 148-165
JoinLines ==
    /\ remove_empty_lines.pc = "loop"
    /\ remove_empty_lines.i = Len(remove_empty_lines.lines)
    /\ LET f == remove_empty_lines
           groups == IF f.consecutive_empty > 0 THEN f.empty_line_groups + 1
                     ELSE f.empty_line_groups
           final == Len(f.processed_lines)
       IN  remove_empty_lines' =
               [f EXCEPT !.pc = "done", !.empty_line_groups = groups,
                         !.final_line_count = final,
                         !.ret = <<join(<<"\n">>, f.processed_lines),
                                   Statistics(f, final, groups), f.removed_count>>]
    /\ UNCHANGED LinesFrame

LinesNext == SplitText \/ LineStep \/ JoinLines

SpecLines == LinesInit /\ [][LinesNext]_vars

\* A line that is empty or holds only whitespace
Blank(line) == strip(line) = <<>>

\* The lines of the text a call returned, none for the empty text
LinesOfText(text) == IF text = <<>> THEN <<>> ELSE split(text, "\n")

\* C23: in mode "loose" without preserve_single_empty no line of
\* processed_text is empty or made of whitespace only, whether trim_lines is
\* set or not.
C23_LooseRemovesBlankLines ==
    /\ remove_empty_lines.pc = "done"
    /\ remove_empty_lines.mode = L_loose
    /\ ~remove_empty_lines.preserve_single_empty
    => \A k \in DOMAIN LinesOfText(remove_empty_lines.ret[1]) :
          ~Blank(LinesOfText(remove_empty_lines.ret[1])[k])

\* What holds of the code: with trim_lines set no blank line is left.
C23_LooseTrimmedRemovesBlankLines ==
    /\ remove_empty_lines.pc = "done"
    /\ remove_empty_lines.mode = L_loose
    /\ ~remove_empty_lines.preserve_single_empty
    /\ remove_empty_lines.trim_lines
    => \A k \in DOMAIN LinesOfText(remove_empty_lines.ret[1]) :
          ~Blank(LinesOfText(remove_empty_lines.ret[1])[k])

Accounted == remove_empty_lines.pc = "done" /\ remove_empty_lines.text # <<>>

\* C29 as stated: for a text that is not empty the number of input lines is
\* the number of lines of processed_text plus removed_lines_count, which is
\* never negative and 0 in mode "trim_only".
C29_TextLinesAccounted ==
    Accounted =>
        /\ remove_empty_lines.original_line_count
             = Len(split(remove_empty_lines.ret[1], "\n")) + remove_empty_lines.ret[3]
        /\ remove_empty_lines.ret[3] >= 0
        /\ remove_empty_lines.mode = L_trim_only => remove_empty_lines.ret[3] = 0

\* C29: for a text that is not empty the number of input lines is the number
\* of lines kept, which the statistics report and which is the number of
\* lines of processed_text whenever processed_text is not empty, plus
\* removed_lines_count; removed_lines_count is never negative, and 0 in mode
\* "trim_only".
C29_KeptLinesAccounted ==
    Accounted =>
        /\ remove_empty_lines.original_line_count
             = remove_empty_lines.final_line_count + remove_empty_lines.ret[3]
        /\ remove_empty_lines.original_line_count = Len(split(remove_empty_lines.text, "\n"))
        /\ remove_empty_lines.ret[2]
             = Statistics(remove_empty_lines, remove_empty_lines.final_line_count,
                          remove_empty_lines.empty_line_groups)
        /\ remove_empty_lines.ret[1] # <<>> =>
              remove_empty_lines.final_line_count = Len(split(remove_empty_lines.ret[1], "\n"))
        /\ remove_empty_lines.ret[3] >= 0
        /\ remove_empty_lines.mode = L_trim_only => remove_empty_lines.ret[3] = 0

\* A call that kept one empty line of a run and removed the others.
C29_Witness ==
    /\ Accounted
    /\ remove_empty_lines.preserve_single_empty
    /\ remove_empty_lines.ret[3] > 0
    /\ \E k \in DOMAIN remove_empty_lines.processed_lines :
          remove_empty_lines.processed_lines[k] = <<>>
    /\ remove_empty_lines.ret[1] # <<>>

\* ---------------------------------------------------------------------
\* MultilinePromptNode.process_multiline_prompt
\* ---------------------------------------------------------------------

L_newline == <<"U+6362", "U+884C", "U+7B26">>

L_comma == <<"U+9017", "U+53F7">>

L_semicolon == <<"U+5206", "U+53F7">>

L_space == <<"U+7A7A", "U+683C">>

L_custom == <<"U+81EA", "U+5B9A", "U+4E49">>

L_other == <<"o", "t", "h", "e", "r">>

F_dot == <<"1", ".", " ">>

F_paren == <<"(", "1", ")", " ">>

F_bracket == <<"[", "1", "]", " ">>

F_colon == <<"1", ":", " ">>

F_dash == <<"1", " ", "-", " ">>

\* Lines 171-180: the lines kept, trimmed when trim_lines is set
ProcessedLines(f, lines) ==
    SelectSeq([k \in DOMAIN lines |-> IF f.trim_lines THEN strip(lines[k]) ELSE lines[k]],
              LAMBDA line : ~(f.remove_empty_lines /\ line = <<>>))

\* Lines 190-201
NumberedLine(line_number_format, n, line) ==
    CASE line_number_format = F_paren -> <<"(">> \o IntToStr(n) \o <<")", " ">> \o line
      [] line_number_format = F_bracket -> <<"[">> \o IntToStr(n) \o <<"]", " ">> \o line
      [] line_number_format = F_colon -> IntToStr(n) \o <<":", " ">> \o line
      [] line_number_format = F_dash -> IntToStr(n) \o <<" ", "-", " ">> \o line
      [] OTHER -> IntToStr(n) \o <<".", " ">> \o line

\* Lines 207-218
Separator(line_separator, custom_separator) ==
    CASE line_separator = L_newline -> <<"\n">>
      [] line_separator = L_comma -> <<",", " ">>
      [] line_separator = L_semicolon -> <<";", " ">>
      [] line_separator = L_space -> <<" ">>
      [] line_separator = L_custom ->
            IF custom_separator # <<>> THEN custom_separator ELSE <<",", " ">>
      [] OTHER -> <<"\n">>

\* Lines 232-238
ProcessingInfo(f) ==
    (IF f.remove_empty_lines THEN <<<<"U+5DF2", "U+79FB", "U+9664", "U+7A7A", "U+884C">>>> ELSE <<>>)
    \o (IF f.trim_lines THEN <<<<"U+5DF2", "U+53BB", "U+9664", "U+9996", "U+5C3E", "U+7A7A", "U+767D">>>> ELSE <<>>)
    \o (IF f.add_line_numbers THEN <<<<"U+5DF2", "U+6DFB", "U+52A0", "U+884C", "U+53F7">>>> ELSE <<>>)

\* Lines 224-241
LineCountInfo(f) ==
    (CASE f.total_lines = 0 -> <<"U+603B", "U+884C", "U+6570", ":", " ", "0", "U+884C", "U+FF08", "U+5904", "U+7406", "U+540E", "U+4E3A", "U+7A7A", "U+FF09">>
       [] f.total_lines = 1 -> <<"U+603B", "U+884C", "U+6570", ":", " ">> \o IntToStr(f.total_lines) \o <<"U+884C", "U+FF08", "U+5355", "U+884C", "U+6587", "U+672C", "U+FF09">>
       [] OTHER -> <<"U+603B", "U+884C", "U+6570", ":", " ">> \o IntToStr(f.total_lines) \o <<"U+884C", "U+FF08", "U+591A", "U+884C", "U+6587", "U+672C", "U+FF09">>)
    \o (IF ProcessingInfo(f) # <<>>
        THEN <<" ", "|", " ", "U+5904", "U+7406", ":", " ">> \o join(<<",", " ">>, ProcessingInfo(f))
        ELSE <<>>)

\* Lines 244-262: indexed_line and index_info
Indexed(f) ==
    IF ~f.enable_index THEN <<<<>>, <<"U+7D22", "U+5F15", "U+529F", "U+80FD", "U+672A", "U+542F", "U+7528">>>>
    ELSE IF f.total_lines = 0
    THEN <<<<>>, <<"U+7D22", "U+5F15", " ">> \o IntToStr(f.line_index) \o <<":", " ", "U+65E0", "U+53EF", "U+7528", "U+884C", "U+FF08", "U+6587", "U+672C", "U+4E3A", "U+7A7A", "U+FF09">>>>
    ELSE IF f.line_index < 0
    THEN <<<<>>, <<"U+7D22", "U+5F15", " ">> \o IntToStr(f.line_index) \o <<":", " ", "U+65E0", "U+6548", "U+7D22", "U+5F15", "U+FF08", "U+7D22", "U+5F15", "U+5FC5", "U+987B", "U+4ECE", "0", "U+5F00", "U+59CB", "U+FF09">>>>
    ELSE IF f.line_index >= f.total_lines
    THEN <<<<>>, <<"U+7D22", "U+5F15", " ">> \o IntToStr(f.line_index) \o <<":", " ", "U+8D85", "U+51FA", "U+8303", "U+56F4", "U+FF08", "U+603B", "U+5171", " ">> \o IntToStr(f.total_lines)
                 \o <<" ", "U+884C", "U+FF0C", "U+6709", "U+6548", "U+7D22", "U+5F15", ":", " ", "0", "-">> \o IntToStr(f.total_lines - 1) \o <<"U+FF09">>>>
    ELSE <<f.processed_lines[f.line_index + 1],
           <<"U+7D22", "U+5F15", " ">> \o IntToStr(f.line_index) \o <<":", " ", "U+6210", "U+529F", "U+83B7", "U+53D6", "U+5185", "U+5BB9", "U+FF08", "U+5171", " ">> \o IntToStr(f.total_lines)
           \o <<" ", "U+884C", "U+FF0C", "U+7D22", "U+5F15", "U+8303", "U+56F4", ":", " ", "0", "-">> \o IntToStr(f.total_lines - 1) \o <<"U+FF09">>>>

MaxPromptLen == 2

Separators ==
    {<<s, <<>>>> : s \in {L_newline, L_comma, L_semicolon, L_space, L_custom, L_other}}
    \cup {<<L_custom, <<"|">>>>}

Numberings ==
    {<<FALSE, F_dot>>}
    \cup {<<TRUE, fmt>> : fmt \in {F_dot, F_paren, F_bracket, F_colon, F_dash, L_other}}

Indexes == {<<FALSE, 0>>, <<TRUE, -1>>, <<TRUE, 0>>, <<TRUE, 2>>}

\* The call process_multiline_prompt(prompt_text, line_separator,
\* custom_separator, remove_empty_lines, trim_lines, add_line_numbers,
\* line_number_format, enable_index, line_index)
PromptCall(prompt_text, sep, remove, trim, numbering, index) ==
    [pc |-> "called", prompt_text |-> prompt_text,
     line_separator |-> sep[1], custom_separator |-> sep[2],
     remove_empty_lines |-> remove, trim_lines |-> trim,
     add_line_numbers |-> numbering[1], line_number_format |-> numbering[2],
     enable_index |-> index[1], line_index |-> index[2],
     original_prompt |-> <<>>, processed_lines |-> <<>>, total_lines |-> 0,
     formatted_prompt |-> <<>>, line_count_info |-> <<>>, ret |-> <<>>]

PromptInit ==
    /\ BuilderIdle
    /\ merging = NotCalled
    /\ make_request = NotCalled
    /\ remove_empty_lines = NotCalled
    /\ process_multiline_prompt \in {PromptCall(s, sep, r, tr, n, ix)
                                     : s \in TextsOf(MaxPromptLen), sep \in Separators,
                                       r \in BOOLEAN, tr \in BOOLEAN, n \in Numberings,
                                       ix \in Indexes}
    /\ download_audio = NotCalled
    /\ files = {}

PromptFrame == <<builder, merging, make_request, remove_empty_lines, download_audio, files>>

\* Lines 160-164
SaveOriginal ==
    /\ process_multiline_prompt.pc = "called"
    /\ LET f == [process_multiline_prompt EXCEPT
                    !.original_prompt = process_multiline_prompt.prompt_text]
       IN  IF f.prompt_text = <<>> \/ strip(f.prompt_text) = <<>>
           THEN process_multiline_prompt' =
                    [f EXCEPT !.pc = "done",
                              !.ret = <<<<>>, 0, <<"U+603B", "U+884C", "U+6570", ":", " ", "0", "U+884C", "U+FF08", "U+7A7A", "U+6587", "U+672C", "U+FF09">>, <<>>, <<>>, <<"U+7D22", "U+5F15", "U+529F", "U+80FD", "U+672A", "U+542F", "U+7528", "U+FF08", "U+6587", "U+672C", "U+4E3A", "U+7A7A", "U+FF09">>, <<>>>>]
           ELSE process_multiline_prompt' = [f EXCEPT !.pc = "lines"]
    /\ UNCHANGED PromptFrame

\* Lines 167-183
ProcessLines ==
    /\ process_multiline_prompt.pc = "lines"
    /\ LET f == process_multiline_prompt
           kept == ProcessedLines(f, split(f.prompt_text, "\n"))
       IN  process_multiline_prompt' =
               [f EXCEPT !.pc = "numbers", !.processed_lines = kept, !.total_lines = Len(kept)]
    /\ UNCHANGED PromptFrame

\* Lines 186-204
NumberLines ==
    /\ process_multiline_prompt.pc = "numbers"
    /\ LET f == process_multiline_prompt
       IN  process_multiline_prompt' =
               [f EXCEPT !.pc = "join",
                         !.processed_lines =
                             IF f.add_line_numbers /\ f.processed_lines # <<>>
                             THEN [k \in DOMAIN f.processed_lines |->
                                      NumberedLine(f.line_number_format, k, f.processed_lines[k])]
                             ELSE @]
    /\ UNCHANGED PromptFrame

\* Lines 207-241
JoinPrompt ==
    /\ process_multiline_prompt.pc = "join"
    /\ LET f == process_multiline_prompt
       IN  process_multiline_prompt' =
               [f EXCEPT !.pc = "index",
                         !.formatted_prompt =
                             join(Separator(f.line_separator, f.custom_separator),
                                  f.processed_lines),
                         !.line_count_info = LineCountInfo(f)]
    /\ UNCHANGED PromptFrame

\* Lines 244-264
IndexLine ==
    /\ process_multiline_prompt.pc = "index"
    /\ LET f == process_multiline_prompt
       IN  process_multiline_prompt' =
               [f EXCEPT !.pc = "done",
                         !.ret = <<f.formatted_prompt, f.total_lines, f.line_count_info,
                                   f.original_prompt, Indexed(f)[1], Indexed(f)[2],
                                   f.processed_lines>>]
    /\ UNCHANGED PromptFrame

PromptNext == SaveOriginal \/ ProcessLines \/ NumberLines \/ JoinPrompt \/ IndexLine

SpecPrompt == PromptInit /\ [][PromptNext]_vars

\* C24: the original_prompt output is the prompt_text input unchanged, for
\* every text, the empty and the whitespace-only ones included, and every
\* setting of the options.
C24_OriginalPromptUnchanged ==
    process_multiline_prompt.pc = "done" =>
        process_multiline_prompt.ret[4] = process_multiline_prompt.prompt_text

\* What holds of the code: the text comes back unless it is made of
\* whitespace only, and then the empty text does.
C24_OriginalPromptUnlessBlank ==
    process_multiline_prompt.pc = "done" =>
        process_multiline_prompt.ret[4]
          = IF strip(process_multiline_prompt.prompt_text) = <<>> THEN <<>>
            ELSE process_multiline_prompt.prompt_text

\* ---------------------------------------------------------------------
\* LoadAudioFromUrlNode.download_audio, from the choice of the path on
\* ---------------------------------------------------------------------

\* The place of the last c in s, 0 when there is none
RECURSIVE LastAt(_, _, _)
LastAt(s, c, from) ==
    IF from < 1 THEN 0
    ELSE IF s[from] = c THEN from
    ELSE LastAt(s, c, from - 1)

\* os.path.splitext(name) of a name without a directory: the extension
\* starts at the last dot, which counts only after a character that is none.
splitext(name) ==
    LET k == LastAt(name, ".", Len(name))
    IN  IF k > 0 /\ \E j \in 1..(k - 1) : name[j] # "."
        THEN <<SubSeq(name, 1, k - 1), SubSeq(name, k, Len(name))>>
        ELSE <<name, <<>>>>

out_dir == <<"i", "n", "p", "u", "t">>

\* os.path.join(out_dir, name)
PathJoin(dir, name) == dir \o <<"/">> \o name

\* Line 171: the name tried after idx - 1 others
Renamed(base_name, idx) ==
    splitext(base_name)[1] \o <<"_">> \o IntToStr(idx) \o splitext(base_name)[2]

\* The paths of the files of the directory
Paths(fs) == {f.path : f \in fs}

\* open(path, "wb") followed by write(data): the file is created, or emptied
\* and filled anew when it exists
WriteBytes(fs, path, data, by) ==
    {f \in fs : f.path # path} \cup {[path |-> path, data |-> data, by |-> by]}

BaseNames == {<<"a", ".", "m", "p", "3">>, <<"b", ".", "w", "a", "v">>, <<"a", "_", "1", ".", "m", "p", "3">>}

\* Files found in the directory before any call, written by nobody here
OldFiles == {[path |-> PathJoin(out_dir, n), data |-> "old", by |-> 0]
             : n \in BaseNames \cup {<<"a", "_", "2", ".", "m", "p", "3">>}}

Invocations == {1, 2}

\* download_audio after line 164, with the bytes read and the name resolved
AudioCall(data, base_name) ==
    [pc |-> "called", data |-> data, base_name |-> base_name, save_path |-> <<>>,
     idx |-> 0, ret |-> <<>>]

AudioInit ==
    /\ BuilderIdle
    /\ merging = NotCalled
    /\ make_request = NotCalled
    /\ remove_empty_lines = NotCalled
    /\ process_multiline_prompt = NotCalled
    /\ download_audio \in [Invocations -> {AudioCall("new", n) : n \in BaseNames}]
    /\ files \in SUBSET OldFiles

AudioFrame == <<builder, merging, make_request, remove_empty_lines, process_multiline_prompt>>

\* Lines 165-168
FirstPath(a) ==
    /\ download_audio[a].pc = "called"
    /\ download_audio' =
           [download_audio EXCEPT ![a].pc = "exists",
                                  ![a].save_path = PathJoin(out_dir, download_audio[a].base_name),
                                  ![a].idx = 1]
    /\ UNCHANGED <<files, AudioFrame>>

\* Lines 169-172: the path exists, the next name is taken
NextPath(a) ==
    /\ download_audio[a].pc = "exists"
    /\ download_audio[a].save_path \in Paths(files)
    /\ download_audio' =
           [download_audio EXCEPT
               ![a].save_path = PathJoin(out_dir, Renamed(download_audio[a].base_name,
                                                          download_audio[a].idx)),
               ![a].idx = @ + 1]
    /\ UNCHANGED <<files, AudioFrame>>

\* Line 169: the path does not exist, the loop is left
PathFree(a) ==
    /\ download_audio[a].pc = "exists"
    /\ download_audio[a].save_path \notin Paths(files)
    /\ download_audio' = [download_audio EXCEPT ![a].pc = "open"]
    /\ UNCHANGED <<files, AudioFrame>>

\* Lines 173-178
WriteFile(a) ==
    /\ download_audio[a].pc = "open"
    /\ files' = WriteBytes(files, download_audio[a].save_path, download_audio[a].data, a)
    /\ download_audio' =
           [download_audio EXCEPT ![a].pc = "done",
                                  ![a].ret = <<download_audio[a].save_path, TRUE>>]
    /\ UNCHANGED AudioFrame

AudioNext ==
    \E a \in Invocations : FirstPath(a) \/ NextPath(a) \/ PathFree(a) \/ WriteFile(a)

SpecAudio == AudioInit /\ [][AudioNext]_vars

\* The names tried in turn: base_name, root_1, root_2, ...
Candidate(base_name, k) ==
    IF k = 0 THEN PathJoin(out_dir, base_name) ELSE PathJoin(out_dir, Renamed(base_name, k))

\* The path is the first of the candidates that no file has
FirstFree(base_name, path, fs) ==
    \E k \in 0..Cardinality(fs) :
        /\ path = Candidate(base_name, k)
        /\ path \notin Paths(fs)
        /\ \A j \in 0..(k - 1) : Candidate(base_name, j) \in Paths(fs)

\* C30: download_audio writes to the first of base_name, root_1, root_2, ...
\* that does not exist, never to a path that a file occupies, and no two
\* invocations write to the same path, interleaved or not.
C30_NeverSharesPath ==
    /\ [](\A a, b \in Invocations :
            a # b /\ download_audio[a].pc = "done" /\ download_audio[b].pc = "done"
            => download_audio[a].ret[1] # download_audio[b].ret[1])
    /\ [][\A a \in Invocations :
            WriteFile(a) =>
                FirstFree(download_audio[a].base_name, download_audio[a].save_path, files)]_vars

\* What holds of the code: the path was the first free one when it was
\* tested, and a file it overwrites is one that the other invocation wrote
\* since.
C30_SharesWithInterleavedOnly ==
    [][\A a \in Invocations :
         /\ PathFree(a) =>
               FirstFree(download_audio[a].base_name, download_audio[a].save_path, files)
         /\ WriteFile(a) =>
               \A f \in files : f.path = download_audio[a].save_path => f.by \notin {0, a}]_vars

====
